---- MODULE Spec2Model ----
(***************************************************************************)
(* Model of the weather aggregator's ingestion -> aggregation -> alerting  *)
(* pipeline (src/aggregator/app).                                          *)
(*                                                                         *)
(* Time is counted in minutes.  Measurements are fixed-point numbers in    *)
(* hundredths (36.0 C is 3600, a humidity of 0.85 is 85).  An optional     *)
(* value is a set: {} is None / SQL NULL, {v} is the value v.  Averages    *)
(* are exact fractions [num, den] in lowest terms.                         *)
(***************************************************************************)
EXTENDS Integers, Sequences, FiniteSets, TLC

VARIABLES
    now,              \* wall clock / SQL now(), minutes
    observations,     \* rows of table observations, in insertion order
    aggregates,       \* rows of table aggregates (a set of rows)
    alerts,           \* rows of table alerts, in insertion order
    published,        \* calls mqtt_client.publish(topic, message) that were made
    publish_warnings, \* alerts for which "Failed to publish alert" was logged
    agg_pc,           \* where aggregate_worker / persist_and_publish_alerts stands
    agg_mode,         \* "worker": aggregate_worker runs; "call", "refresh_all",
                      \* "evaluate": one function is called directly; "off",
                      \* "stream": the aggregate worker is left out
    windows,          \* the (window, lookback) pairs refresh_all is given
    alert_rules,      \* the rules evaluate_latest_buckets is given
    refreshed,        \* refresh_all: indexes of the pairs whose upsert was executed
    synced,           \* index of the pair refreshed last, 0 once an observation
                      \* was stored after it
    win_idx,          \* refresh_all: index of the next (window, lookback) pair
    detected,         \* candidate alerts handed to persist_and_publish_alerts
    pidx,             \* persist_and_publish_alerts: index of the current candidate
    emitted,          \* persist_and_publish_alerts: local counter / return value
    skipped,          \* candidates skipped by the cooldown check in this call
    inserted,         \* indexes of the candidates inserted in this call
    hist_len,         \* number of alert rows when this call began
    alerts_emitted,   \* metrics.alerts_emitted
    aggregate_runs,   \* metrics.aggregate_runs
    delivered,        \* messages the transport gave to on_message; index = id
    mqtt_stopped,     \* the listener does not run: it was not started, or
                      \* stop_mqtt_listener was called
    mqtt_warnings,    \* ids on_message dropped ("Failed to handle MQTT message")
    ready,            \* the event loop's queue of scheduled callbacks (FIFO)
    ingest_queue,     \* asyncio.Queue: ids of the items it holds
    putters,          \* asyncio.Queue._putters: ids whose put() waits for space
    getter_pending,   \* asyncio.Queue._getters holds the worker's pending getter
    unfinished_tasks, \* asyncio.Queue._unfinished_tasks
    ingest_at,        \* where ingest_worker stands
    ingest_cancel,    \* ingest_task.cancel() was called and not yet delivered
    db_state,         \* outcome of the INSERT the worker awaits
    current,          \* id of the item the worker processes (0: none)
    dequeued,         \* ids in the order queue.get() returned them
    acked,            \* ids in the order queue.task_done() was called for them
    ingest_queue_size, \* metrics.ingest_queue_size
    ingested_messages, \* metrics.ingested_messages
    ingest_failures   \* metrics.ingest_failures

aggVars == <<now, observations, aggregates, alerts, published, publish_warnings,
             agg_pc, agg_mode, windows, alert_rules, refreshed, synced, win_idx, detected, pidx, emitted, skipped,
             inserted, hist_len, alerts_emitted, aggregate_runs>>

\* aggVars without what ingestion writes: the table of observations, and
\* synced with it
aggRest == <<now, aggregates, alerts, published, publish_warnings,
             agg_pc, agg_mode, windows, alert_rules, refreshed, win_idx, detected, pidx, emitted, skipped,
             inserted, hist_len, alerts_emitted, aggregate_runs>>

ingVars == <<delivered, mqtt_stopped, mqtt_warnings, ready, ingest_queue,
             putters, getter_pending, unfinished_tasks, ingest_at,
             ingest_cancel, db_state, current, dequeued, acked,
             ingest_queue_size, ingested_messages, ingest_failures>>

vars == <<aggVars, ingVars>>

-----------------------------------------------------------------------------
(* Bounds of the model *)

\* main.py: asyncio.Queue(maxsize=1000); the model runs a small capacity
maxsize == 1
MaxMsgs == 3        \* messages the transport delivers at most

MaxNow == 75        \* the clock stops advancing here
MaxObs == 2         \* observations stored at most
MaxAlerts == 3      \* alert rows at most
MaxCandidates == 2  \* length of the candidate list of a direct call
MaxLive == 4        \* messages of a stream that are not finished, at a time

TickSteps == {15, 60}

-----------------------------------------------------------------------------
(* Configuration *)

\* config.py: alert_cooldown_minutes
alert_cooldown_minutes == 60

\* config.py: aggregate_interval_seconds
interval_seconds == 60

\* A window string is modelled by the tokens str.split() yields.
DEFAULT_WINDOWS ==
    << [window |-> <<"15", "minutes">>, lookback |-> <<"6", "hours">>],
       [window |-> <<"1", "hour">>,     lookback |-> <<"72", "hours">>] >>

DEFAULT_RULES ==
    << [name |-> "temp_high", level |-> "warning", field |-> "temp_max",
        op |-> ">", threshold |-> 3500, window |-> <<"1", "hour">>,
        message |-> "Temperature exceeded 35C"],
       [name |-> "wind_high", level |-> "warning", field |-> "wind_avg",
        op |-> ">", threshold |-> 4000, window |-> <<"1", "hour">>,
        message |-> "Wind speed exceeded 40 kph"],
       [name |-> "humidity_high", level |-> "info", field |-> "humidity_avg",
        op |-> ">", threshold |-> 85, window |-> <<"15", "minutes">>,
        message |-> "Humidity exceeded 85%"] >>

\* The entity ids, in the order ORDER BY city_id yields.
Cities == <<"brampton", "toronto">>

-----------------------------------------------------------------------------
(* Helpers *)

Range(s) == {s[i] : i \in DOMAIN s}

RECURSIVE GCD(_, _)
GCD(a, b) == IF b = 0 THEN a ELSE GCD(b, a % b)

Frac(n, d) == LET g == GCD(n, d) IN [num |-> n \div g, den |-> d \div g]

RECURSIVE SetSum(_)
SetSum(S) == IF S = {} THEN 0
             ELSE LET x == CHOOSE y \in S : TRUE IN x[2] + SetSum(S \ {x})

SetMax(S) == CHOOSE x \in S : \A y \in S : y <= x
SetMin(S) == CHOOSE x \in S : \A y \in S : x <= y

-----------------------------------------------------------------------------
(* alerts.py: _parse_window *)

\* int(value): the decimal strings the model uses; anything else raises.
IntOf == [s \in {"0", "1", "2", "6", "15", "72"} |->
            CASE s = "0" -> 0 [] s = "1" -> 1 [] s = "2" -> 2 [] s = "6" -> 6
              [] s = "15" -> 15 [] s = "72" -> 72]

\* "min" in unit / "hour" in unit / "day" in unit, for lower-cased unit words.
UnitContains(unit, sub) ==
    CASE sub = "min"  -> unit \in {"min", "mins", "minute", "minutes"}
      [] sub = "hour" -> unit \in {"hour", "hours"}
      [] sub = "day"  -> unit \in {"day", "days"}
      [] OTHER -> FALSE

_parse_window(window) ==
    IF Len(window) # 2 \/ window[1] \notin DOMAIN IntOf
    THEN 0
    ELSE LET value == IntOf[window[1]]
             unit == window[2]
         IN IF UnitContains(unit, "min") THEN value
            ELSE IF UnitContains(unit, "hour") THEN 60 * value
            ELSE IF UnitContains(unit, "day") THEN 1440 * value
            ELSE 0

\* Variant of _compare in which '>' is inclusive.
_compareInclusive(value, op, threshold) ==
    IF value = {} THEN FALSE
    ELSE LET v == CHOOSE x \in value : TRUE IN
         CASE op = ">"  -> v.num >= threshold * v.den
           [] op = "<"  -> v.num < threshold * v.den
           [] op = ">=" -> v.num >= threshold * v.den
           [] op = "<=" -> v.num <= threshold * v.den
           [] OTHER -> FALSE

(* alerts.py: _compare, on an optional fraction *)
_compare(value, op, threshold) ==
    IF value = {} THEN FALSE
    ELSE LET v == CHOOSE x \in value : TRUE IN
         CASE op = ">"  -> v.num > threshold * v.den
           [] op = "<"  -> v.num < threshold * v.den
           [] op = ">=" -> v.num >= threshold * v.den
           [] op = "<=" -> v.num <= threshold * v.den
           [] OTHER -> FALSE

-----------------------------------------------------------------------------
(* aggregator.py: refresh_window *)

time_bucket(width, ts) == (ts \div width) * width

\* Variant of InHorizon without the WHERE clause.
InHorizonAll(lookback_td) == DOMAIN observations

\* The observations (by row index) the SELECT of refresh_window reads.
InHorizon(lookback_td) ==
    {i \in DOMAIN observations : observations[i].observed_at >= now - lookback_td}

\* Variant of Present in which an absent value counts as zero.
PresentAbsentAsZero(idx, col) ==
    {<<i, IF observations[i][col] = {} THEN 0
          ELSE CHOOSE v \in observations[i][col] : TRUE>> : i \in idx}

\* AVG / MIN / MAX over the non-NULL values of column col in the rows idx.
Present(idx, col) == {<<i, CHOOSE v \in observations[i][col] : TRUE>> :
                        i \in {j \in idx : observations[j][col] # {}}}

SqlAvg(idx, col) ==
    LET p == Present(idx, col)
    IN IF p = {} THEN {} ELSE {Frac(SetSum(p), Cardinality(p))}

SqlMin(idx, col) ==
    LET p == Present(idx, col)
    IN IF p = {} THEN {} ELSE {Frac(SetMin({x[2] : x \in p}), 1)}

SqlMax(idx, col) ==
    LET p == Present(idx, col)
    IN IF p = {} THEN {} ELSE {Frac(SetMax({x[2] : x \in p}), 1)}

\* The rows the SELECT ... GROUP BY city_id, bucket_start yields.
SelectGroups(window_td, lookback_td) ==
    LET idx == InHorizon(lookback_td)
        keys == {<<observations[i].city_id,
                   time_bucket(window_td, observations[i].observed_at)>> : i \in idx}
    IN { LET g == {i \in idx : /\ observations[i].city_id = k[1]
                               /\ time_bucket(window_td, observations[i].observed_at) = k[2]}
         IN [city_id |-> k[1], bucket_start |-> k[2], bucket_width |-> window_td,
             temp_avg |-> SqlAvg(g, "temp_c"),
             temp_min |-> SqlMin(g, "temp_c"),
             temp_max |-> SqlMax(g, "temp_c"),
             humidity_avg |-> SqlAvg(g, "humidity"),
             wind_avg |-> SqlAvg(g, "wind_kph"),
             created_at |-> now]
         : k \in keys }

AggKey(r) == <<r.city_id, r.bucket_start, r.bucket_width>>

\* Variant of Upsert that replaces the table by the selected rows.
UpsertSelectedOnly(table, rows) == rows

\* Variant of Upsert that adds the rows and keeps the old ones.
UpsertKeepsOld(table, rows) == table \cup rows

\* INSERT ... ON CONFLICT (city_id, bucket_start, bucket_width) DO UPDATE
Upsert(table, rows) ==
    {r \in table : \A n \in rows : AggKey(n) # AggKey(r)} \cup rows

refresh_window(window, lookback) ==
    LET window_td == _parse_window(window)
        lookback_td == _parse_window(lookback)
    IN IF window_td = 0 \/ lookback_td = 0
       THEN aggregates
       ELSE Upsert(aggregates, SelectGroups(window_td, lookback_td))

-----------------------------------------------------------------------------
(* alerts.py: evaluate_latest_buckets *)

CityRank(c) == CHOOSE i \in DOMAIN Cities : Cities[i] = c

\* Variant of LatestRows with ORDER BY ... bucket_start ASC: the oldest row.
LatestRowsOldest(rules) ==
    LET widths == {_parse_window(rules[i].window) : i \in DOMAIN rules}
        cand == {r \in aggregates : r.bucket_width \in widths}
        groups == {<<r.city_id, r.bucket_width>> : r \in cand}
    IN { CHOOSE r \in cand :
            /\ <<r.city_id, r.bucket_width>> = g
            /\ \A q \in cand : <<q.city_id, q.bucket_width>> = g
                                  => q.bucket_start >= r.bucket_start
         : g \in groups }

\* SELECT DISTINCT ON (city_id, bucket_width) ... WHERE bucket_width IN (...)
\* ORDER BY city_id, bucket_width, bucket_start DESC: per (city_id, width) the
\* row with the highest bucket_start.
LatestRows(rules) ==
    LET widths == {_parse_window(rules[i].window) : i \in DOMAIN rules}
        cand == {r \in aggregates : r.bucket_width \in widths}
        groups == {<<r.city_id, r.bucket_width>> : r \in cand}
    IN { CHOOSE r \in cand :
            /\ <<r.city_id, r.bucket_width>> = g
            /\ \A q \in cand : <<q.city_id, q.bucket_width>> = g
                                  => q.bucket_start <= r.bucket_start
         : g \in groups }

RowBefore(a, b) ==
    \/ CityRank(a.city_id) < CityRank(b.city_id)
    \/ /\ a.city_id = b.city_id
       /\ a.bucket_width < b.bucket_width

RECURSIVE OrderRows(_)
OrderRows(S) ==
    IF S = {} THEN <<>>
    ELSE LET first == CHOOSE r \in S : \A q \in S \ {r} : RowBefore(r, q)
         IN <<first>> \o OrderRows(S \ {first})

\* row.get(field): None when the row has no such column
RowGet(row, field) == IF field \in DOMAIN row THEN row[field] ELSE {}

\* Variant of RuleTriggers in which an absent value triggers the rule.
RuleTriggersOnAbsent(row, rule) ==
    /\ row.bucket_width = _parse_window(rule.window)
    /\ \/ RowGet(row, rule.field) = {}
       \/ _compare(RowGet(row, rule.field), rule.op, rule.threshold)

RuleTriggers(row, rule) ==
    /\ row.bucket_width = _parse_window(rule.window)
    /\ _compare(RowGet(row, rule.field), rule.op, rule.threshold)

MakeAlert(row, rule) ==
    [city_id |-> row.city_id, level |-> rule.level, rule |-> rule.name,
     message |-> rule.message, triggered_at |-> row.bucket_start]

\* Variant of RowAlerts that stops at the first rule that triggers.
RECURSIVE RowAlertsFirstOnly(_, _, _)
RowAlertsFirstOnly(row, rules, i) ==
    IF i > Len(rules) THEN <<>>
    ELSE IF RuleTriggers(row, rules[i]) THEN <<MakeAlert(row, rules[i])>>
    ELSE RowAlertsFirstOnly(row, rules, i + 1)

RECURSIVE RowAlerts(_, _, _)
RowAlerts(row, rules, i) ==
    IF i > Len(rules) THEN <<>>
    ELSE (IF RuleTriggers(row, rules[i]) THEN <<MakeAlert(row, rules[i])>> ELSE <<>>)
         \o RowAlerts(row, rules, i + 1)

RECURSIVE AllAlerts(_, _, _)
AllAlerts(rows, rules, i) ==
    IF i > Len(rows) THEN <<>>
    ELSE RowAlerts(rows[i], rules, 1) \o AllAlerts(rows, rules, i + 1)

evaluate_latest_buckets(rules) == AllAlerts(OrderRows(LatestRows(rules)), rules, 1)

-----------------------------------------------------------------------------
(* schemas.py: Alert, and its serialisation json.dumps(alert.model_dump()) *)

\* The Python type of each field of Alert.
AlertFieldType ==
    [city_id |-> "str", level |-> "str", rule |-> "str", message |-> "str",
     triggered_at |-> "datetime"]

\* model_dump() in its default (python) mode keeps every value as it is.
model_dump(alert) ==
    [f \in DOMAIN AlertFieldType |-> [type |-> AlertFieldType[f], value |-> alert[f]]]

\* The types json.JSONEncoder encodes; any other type raises TypeError.
JsonEncodable == {"str", "int", "float", "bool", "NoneType", "list", "dict"}

json_dumps(d) ==
    IF \A f \in DOMAIN d : d[f].type \in JsonEncodable
    THEN [ok |-> TRUE, text |-> d]
    ELSE [ok |-> FALSE, text |-> "TypeError"]

-----------------------------------------------------------------------------
(* alerts.py: persist_and_publish_alerts *)

\* Variant of the cooldown query with a strict comparison (triggered_at > ...).
CooldownExistsStrict(alert, cooldown_minutes) ==
    \E i \in DOMAIN alerts :
        /\ alerts[i].city_id = alert.city_id
        /\ alerts[i].rule = alert.rule
        /\ alerts[i].triggered_at > now - cooldown_minutes

\* SELECT 1 FROM alerts WHERE city_id=$1 AND rule=$2
\*   AND triggered_at >= now() - $3::interval LIMIT 1
CooldownExists(alert, cooldown_minutes) ==
    \E i \in DOMAIN alerts :
        /\ alerts[i].city_id = alert.city_id
        /\ alerts[i].rule = alert.rule
        /\ alerts[i].triggered_at >= now - cooldown_minutes

\* The frame of the call: its locals.
persistLocals == <<detected, pidx, emitted, skipped, inserted>>

\* Variant of PersistLeave in which aggregate_worker has no except clause:
\* an exception that leaves the call ends the worker.
PersistLeaveUncaught(e, sk, ins, raised) ==
    IF agg_mode = "worker"
    THEN /\ agg_pc' = IF raised THEN "crashed" ELSE "sleep"
         /\ alerts_emitted' = IF ~raised /\ e > 0 THEN alerts_emitted + e
                              ELSE alerts_emitted
         /\ detected' = <<>>
         /\ pidx' = 1
         /\ emitted' = 0
         /\ skipped' = {}
         /\ inserted' = {}
    ELSE /\ agg_pc' = IF raised THEN "raised" ELSE "returned"
         /\ emitted' = e
         /\ skipped' = sk
         /\ inserted' = ins
         /\ UNCHANGED <<detected, pidx, alerts_emitted>>

\* The call ends: it returns emitted (e), or an exception leaves it (raised).
\* aggregate_worker adds a returned count to alerts_emitted, catches every
\* Exception, and goes to sleep; the frame of the call is gone.
PersistLeave(e, sk, ins, raised) ==
    IF agg_mode = "worker"
    THEN /\ agg_pc' = "sleep"
         /\ alerts_emitted' = IF ~raised /\ e > 0 THEN alerts_emitted + e
                              ELSE alerts_emitted
         /\ detected' = <<>>
         /\ pidx' = 1
         /\ emitted' = 0
         /\ skipped' = {}
         /\ inserted' = {}
    ELSE /\ agg_pc' = IF raised THEN "raised" ELSE "returned"
         /\ emitted' = e
         /\ skipped' = sk
         /\ inserted' = ins
         /\ UNCHANGED <<detected, pidx, alerts_emitted>>

\* for alert in alerts: the next candidate, or the end of the loop
PersistContinue(e, sk, ins) ==
    IF pidx < Len(detected)
    THEN /\ pidx' = pidx + 1
         /\ agg_pc' = "persist_check"
         /\ emitted' = e
         /\ skipped' = sk
         /\ inserted' = ins
         /\ UNCHANGED <<detected, alerts_emitted>>
    ELSE PersistLeave(e, sk, ins, FALSE)

\* A direct call of persist_and_publish_alerts(pool, mqtt_client, detected):
\* if not alerts: return 0
PersistCall ==
    /\ agg_pc = "call"
    /\ emitted' = 0
    /\ pidx' = 1
    /\ IF detected = <<>>
       THEN agg_pc' = "returned"
       ELSE agg_pc' = "persist_check"
    /\ UNCHANGED <<now, observations, aggregates, alerts, published,
                   publish_warnings, agg_mode, windows, alert_rules, refreshed, synced, win_idx, detected, skipped,
                   inserted, hist_len, alerts_emitted, aggregate_runs,
                   ingVars>>

\* Variant of PersistCheck that counts a skipped candidate as emitted.
PersistCheckCountsSkipped ==
    /\ agg_pc = "persist_check"
    /\ \E dbok \in BOOLEAN :
         IF ~dbok
         THEN PersistLeave(emitted, skipped, inserted, TRUE)
         ELSE IF CooldownExists(detected[pidx], alert_cooldown_minutes)
              THEN PersistContinue(emitted + 1, skipped \cup {pidx}, inserted)
              ELSE /\ agg_pc' = "persist_insert"
                   /\ UNCHANGED <<persistLocals, alerts_emitted>>
    /\ UNCHANGED <<now, observations, aggregates, alerts, published,
                   publish_warnings, agg_mode, windows, alert_rules, refreshed,
                   synced, win_idx, hist_len, aggregate_runs, ingVars>>

\* exists = await conn.fetchrow(...); if exists: continue
PersistCheck ==
    /\ agg_pc = "persist_check"
    /\ \E dbok \in BOOLEAN :
         IF ~dbok
         THEN PersistLeave(emitted, skipped, inserted, TRUE)
         ELSE IF CooldownExists(detected[pidx], alert_cooldown_minutes)
              THEN PersistContinue(emitted, skipped \cup {pidx}, inserted)
              ELSE /\ agg_pc' = "persist_insert"
                   /\ UNCHANGED <<persistLocals, alerts_emitted>>
    /\ UNCHANGED <<now, observations, aggregates, alerts, published,
                   publish_warnings, agg_mode, windows, alert_rules, refreshed, synced, win_idx, hist_len,
                   aggregate_runs,
                   ingVars>>

\* try: mqtt_client.publish(f"alerts/{city_id}", json.dumps(alert.model_dump()))
\* except Exception: logger.warning(...)
\* The argument is evaluated first; publish is called only if that succeeds,
\* and publish itself may raise.
PublishAttempt(alert) ==
    LET msg == json_dumps(model_dump(alert))
    IN IF ~msg.ok
       THEN /\ publish_warnings' = Append(publish_warnings,
                   [alert |-> alert, cause |-> "json.dumps"])
            /\ UNCHANGED published
       ELSE \E sent \in BOOLEAN :
              IF sent
              THEN /\ published' = Append(published,
                          [topic |-> <<"alerts", alert.city_id>>,
                           message |-> msg.text])
                   /\ UNCHANGED publish_warnings
              ELSE /\ publish_warnings' = Append(publish_warnings,
                          [alert |-> alert, cause |-> "publish"])
                   /\ UNCHANGED published

\* Variant of PersistInsert without the try/except around publish: the
\* failure leaves the call after the insert.
PersistInsertPropagates ==
    /\ agg_pc = "persist_insert"
    /\ \E dbok \in BOOLEAN :
         IF ~dbok
         THEN /\ PersistLeave(emitted, skipped, inserted, TRUE)
              /\ UNCHANGED <<alerts, published, publish_warnings>>
         ELSE /\ Len(alerts) < MaxAlerts
              /\ alerts' = Append(alerts, detected[pidx])
              /\ PublishAttempt(detected[pidx])
              /\ IF Len(publish_warnings') > Len(publish_warnings)
                 THEN PersistLeave(emitted, skipped, inserted, TRUE)
                 ELSE PersistContinue(emitted + 1, skipped, inserted \cup {pidx})
    /\ UNCHANGED <<now, observations, aggregates, agg_mode, windows, alert_rules, refreshed, synced, win_idx, hist_len,
                   aggregate_runs, ingVars>>

\* await conn.execute("INSERT INTO alerts ..."); publish; emitted += 1
PersistInsert ==
    /\ agg_pc = "persist_insert"
    /\ \E dbok \in BOOLEAN :
         IF ~dbok
         THEN /\ PersistLeave(emitted, skipped, inserted, TRUE)
              /\ UNCHANGED <<alerts, published, publish_warnings>>
         ELSE /\ Len(alerts) < MaxAlerts
              /\ alerts' = Append(alerts, detected[pidx])
              /\ PublishAttempt(detected[pidx])
              /\ PersistContinue(emitted + 1, skipped, inserted \cup {pidx})
    /\ UNCHANGED <<now, observations, aggregates, agg_mode, windows, alert_rules, refreshed, synced, win_idx, hist_len,
                   aggregate_runs,
                   ingVars>>

-----------------------------------------------------------------------------
(* aggregator.py: aggregate_worker and refresh_all *)

\* Variant of PairSkipped that looks at the window only.
PairSkippedWindowOnly(pair) == _parse_window(pair.window) = 0

\* refresh_window returns early, without a statement, for a pair with a
\* zero duration.
PairSkipped(pair) ==
    _parse_window(pair.window) = 0 \/ _parse_window(pair.lookback) = 0

\* Variant of RefreshAdvance that ends refresh_all after its first pair.
RefreshAdvanceEarly ==
    /\ win_idx' = 1
    /\ IF agg_mode = "worker"
       THEN /\ agg_pc' = "evaluate"
            /\ aggregate_runs' = aggregate_runs + 1
       ELSE /\ agg_pc' = "returned"
            /\ UNCHANGED aggregate_runs

\* refresh_all has gone through its pairs: aggregate_worker counts the run
\* and evaluates; a direct call returns.
RefreshAdvance ==
    IF win_idx < Len(windows)
    THEN /\ win_idx' = win_idx + 1
         /\ UNCHANGED <<agg_pc, aggregate_runs>>
    ELSE /\ win_idx' = 1
         /\ IF agg_mode = "worker"
            THEN /\ agg_pc' = "evaluate"
                 /\ aggregate_runs' = aggregate_runs + 1
            ELSE /\ agg_pc' = "returned"
                 /\ UNCHANGED aggregate_runs

\* await refresh_window(pool, window, lookback), one pair of refresh_all.
\* An exception of the store leaves refresh_window and refresh_all; it is
\* caught by aggregate_worker, which then sleeps.
RefreshStep ==
    /\ agg_mode \in {"worker", "refresh_all"}
    /\ agg_pc = "refresh"
    /\ IF win_idx > Len(windows)
       THEN \* for window, lookback in windows: an empty list
            /\ RefreshAdvance
            /\ UNCHANGED <<aggregates, refreshed, synced>>
       ELSE IF PairSkipped(windows[win_idx])
       THEN /\ RefreshAdvance
            /\ UNCHANGED <<aggregates, refreshed, synced>>
       ELSE \E dbok \in BOOLEAN :
              IF ~dbok
              THEN /\ agg_pc' = IF agg_mode = "worker" THEN "sleep" ELSE "raised"
                   /\ win_idx' = 1
                   /\ UNCHANGED <<aggregates, aggregate_runs, refreshed, synced>>
              ELSE /\ aggregates' = refresh_window(windows[win_idx].window,
                                                   windows[win_idx].lookback)
                   /\ refreshed' = refreshed \cup {win_idx}
                   /\ synced' = win_idx
                   /\ RefreshAdvance
    /\ UNCHANGED <<now, observations, alerts, published, publish_warnings,
                   agg_mode, windows, alert_rules, persistLocals, hist_len,
                   alerts_emitted, ingVars>>

\* detected = await alerts.evaluate_latest_buckets(pool, alert_rules), then
\* the call of persist_and_publish_alerts up to its first await
\* (if not alerts: return 0).  A direct call of evaluate_latest_buckets
\* returns the list or raises.
EvaluateStep ==
    /\ agg_mode \in {"worker", "evaluate"}
    /\ agg_pc = "evaluate"
    /\ \E dbok \in BOOLEAN :
         IF ~dbok
         THEN /\ agg_pc' = IF agg_mode = "worker" THEN "sleep" ELSE "raised"
              /\ UNCHANGED <<detected, hist_len>>
         ELSE /\ detected' = evaluate_latest_buckets(alert_rules)
              /\ hist_len' = Len(alerts)
              /\ agg_pc' = IF agg_mode = "evaluate" THEN "returned"
                           ELSE IF detected' = <<>> THEN "sleep"
                           ELSE "persist_check"
    /\ UNCHANGED <<now, observations, aggregates, alerts, published,
                   publish_warnings, agg_mode, windows, alert_rules, refreshed,
                   synced, win_idx, pidx, emitted, skipped, inserted,
                   alerts_emitted, aggregate_runs, ingVars>>

\* await asyncio.sleep(interval_seconds) returns: the next cycle begins.
\* The sleep lasts at least the interval; the clock advances by d minutes.
SleepEnds ==
    /\ agg_mode = "worker"
    /\ agg_pc = "sleep"
    /\ \E d \in TickSteps :
         /\ d * 60 >= interval_seconds
         /\ now + d <= MaxNow
         /\ now' = now + d
    /\ agg_pc' = "refresh"
    /\ refreshed' = {}
    /\ UNCHANGED <<observations, aggregates, alerts, published, publish_warnings,
                   agg_mode, windows, alert_rules, synced, win_idx, persistLocals, hist_len, alerts_emitted,
                   aggregate_runs,
                   ingVars>>

\* Variant of AggCancel without the except clause around the sleep.
AggCancelSleepUncaught ==
    /\ agg_mode = "worker"
    /\ agg_pc \in {"refresh", "evaluate", "persist_check", "persist_insert", "sleep"}
    /\ agg_pc' = "cancelled"
    /\ win_idx' = 1
    /\ refreshed' = {}
    /\ detected' = <<>>
    /\ pidx' = 1
    /\ emitted' = 0
    /\ skipped' = {}
    /\ inserted' = {}
    /\ UNCHANGED <<now, observations, aggregates, alerts, published,
                   publish_warnings, agg_mode, windows, alert_rules, synced,
                   hist_len, alerts_emitted, aggregate_runs, ingVars>>

\* aggregate_task.cancel(): CancelledError is thrown at the await the task is
\* suspended in.  The sleep catches it and breaks; everywhere else it is no
\* Exception, so it leaves the loop and ends the task.
AggCancel ==
    /\ agg_mode = "worker"
    /\ agg_pc \in {"refresh", "evaluate", "persist_check", "persist_insert", "sleep"}
    /\ agg_pc' = IF agg_pc = "sleep" THEN "exited" ELSE "cancelled"
    /\ win_idx' = 1
    /\ refreshed' = {}
    /\ detected' = <<>>
    /\ pidx' = 1
    /\ emitted' = 0
    /\ skipped' = {}
    /\ inserted' = {}
    /\ UNCHANGED <<now, observations, aggregates, alerts, published,
                   publish_warnings, agg_mode, windows, alert_rules, synced,
                   hist_len, alerts_emitted, aggregate_runs, ingVars>>

\* Wall-clock time passes while persist_and_publish_alerts waits for the
\* store (between its SELECT and its INSERT, and between candidates), and
\* between two direct calls of refresh_all.
Tick ==
    /\ \/ agg_pc \in {"persist_check", "persist_insert"}
       \/ agg_mode = "refresh_all" /\ agg_pc \in {"returned", "raised"}
    /\ \E d \in TickSteps :
         /\ now + d <= MaxNow
         /\ now' = now + d
    /\ UNCHANGED <<observations, aggregates, alerts, published, publish_warnings,
                   agg_pc, agg_mode, windows, alert_rules, refreshed, synced, win_idx, persistLocals, hist_len,
                   alerts_emitted, aggregate_runs,
                   ingVars>>

\* The measurements of the observations that arrive.
Readings ==
    { [temp_c |-> {3600}, humidity |-> {},   wind_kph |-> {}],
      [temp_c |-> {3000}, humidity |-> {90}, wind_kph |-> {4001}] }

\* How many minutes before its arrival an observation was taken.
Lateness == {0, 60}

\* The ingestion stage stores a validated observation
\* (main.py: INSERT INTO observations), observed now or earlier.
ObservationStored ==
    /\ agg_mode \in {"worker", "refresh_all"}
    /\ agg_pc \notin {"exited", "cancelled"}
    /\ Len(observations) < MaxObs
    /\ synced' = 0
    /\ \E c \in Range(Cities), r \in Readings, late \in Lateness :
         /\ now - late >= 0
         /\ observations' = Append(observations,
               [city_id |-> c, source |-> "sim", observed_at |-> now - late,
                temp_c |-> r.temp_c, humidity |-> r.humidity,
                wind_kph |-> r.wind_kph])
    /\ UNCHANGED <<now, aggregates, alerts, published, publish_warnings,
                   agg_pc, agg_mode, windows, alert_rules, refreshed, win_idx,
                   persistLocals, hist_len, alerts_emitted, aggregate_runs,
                   ingVars>>

-----------------------------------------------------------------------------
(* main.py: extract_city, and schemas.py: Observation *)

\* A topic is modelled by the parts topic.split("/") yields.
extract_city(parts) ==
    IF Len(parts) >= 3 /\ parts[1] = "city" /\ parts[3] = "observations"
    THEN {parts[2]}
    ELSE {}

\* if not city: None and the empty string are both falsy
CityUsable(city) == city # {} /\ city # {""}

\* data = payload.copy() if isinstance(payload, dict) else {}
\* data.setdefault("city_id", city)
\* A payload is a record of optional fields; {} is a key that is absent.
NoFields ==
    [city_id |-> {}, source |-> {}, observed_at |-> {}, temp_c |-> {},
     humidity |-> {}, wind_kph |-> {}]

MergeCity(payload, city) ==
    LET data == IF payload.isdict THEN payload.fields ELSE NoFields
    IN [data EXCEPT !.city_id = IF data.city_id = {} THEN {city} ELSE data.city_id]

\* Variant of the schema in which source is optional.
ObservationValidNoSource(data) ==
    /\ data.city_id # {}
    /\ data.observed_at # {}

\* Observation(**data): city_id, source and observed_at are required
ObservationValid(data) ==
    /\ data.city_id # {}
    /\ data.source # {}
    /\ data.observed_at # {}

The(S) == CHOOSE x \in S : TRUE

\* The row of the INSERT INTO observations (pressure_hpa and rain_mm, which
\* no aggregate reads, are left out).
ObservationRow(data) ==
    [city_id |-> The(data.city_id), source |-> The(data.source),
     observed_at |-> The(data.observed_at), temp_c |-> data.temp_c,
     humidity |-> data.humidity, wind_kph |-> data.wind_kph]

-----------------------------------------------------------------------------
(* The messages the transport delivers *)

GoodFields ==
    [city_id |-> {}, source |-> {"sim"}, observed_at |-> {0}, temp_c |-> {3600},
     humidity |-> {}, wind_kph |-> {}]

GoodTopic == <<"city", "toronto", "observations">>

MsgKinds ==
    { \* a well-formed observation
      [topic |-> GoodTopic, json |-> TRUE,
       payload |-> [isdict |-> TRUE, fields |-> GoodFields]],
      \* the payload names another city than the topic
      [topic |-> GoodTopic, json |-> TRUE,
       payload |-> [isdict |-> TRUE,
                    fields |-> [GoodFields EXCEPT !.city_id = {"brampton"}]]],
      \* a topic of another shape
      [topic |-> <<"foo", "bar">>, json |-> TRUE,
       payload |-> [isdict |-> TRUE, fields |-> GoodFields]],
      \* source is missing
      [topic |-> GoodTopic, json |-> TRUE,
       payload |-> [isdict |-> TRUE, fields |-> [GoodFields EXCEPT !.source = {}]]],
      \* observed_at is missing
      [topic |-> GoodTopic, json |-> TRUE,
       payload |-> [isdict |-> TRUE,
                    fields |-> [GoodFields EXCEPT !.observed_at = {}]]],
      \* the payload is JSON but no object
      [topic |-> GoodTopic, json |-> TRUE,
       payload |-> [isdict |-> FALSE, fields |-> NoFields]],
      \* the payload is no JSON at all
      [topic |-> GoodTopic, json |-> FALSE,
       payload |-> [isdict |-> FALSE, fields |-> NoFields]] }

\* Well-formed observations of one entity with 36, 37 and 38 degrees.
ScenarioMsgs ==
    { [topic |-> GoodTopic, json |-> TRUE,
       payload |-> [isdict |-> TRUE, fields |-> [GoodFields EXCEPT !.temp_c = {t}]]]
      : t \in {3600, 3700, 3800} }

\* The messages of a stream without end: a well-formed observation, or one
\* that fails the validation.
StreamMsgs ==
    { [topic |-> GoodTopic, json |-> TRUE,
       payload |-> [isdict |-> TRUE, fields |-> GoodFields]],
      [topic |-> GoodTopic, json |-> TRUE,
       payload |-> [isdict |-> TRUE, fields |-> [GoodFields EXCEPT !.source = {}]]] }

\* The messages the transport delivers: every kind when the ingestion stage
\* is taken alone, the well-formed ones when the aggregate worker runs too.
Deliverable ==
    CASE agg_mode = "off" -> MsgKinds
      [] agg_mode = "stream" -> StreamMsgs
      [] OTHER -> ScenarioMsgs

\* How many messages the model takes up: MaxMsgs in all, or MaxLive at a
\* time in a stream.
MsgBound == IF agg_mode = "stream" THEN MaxLive ELSE MaxMsgs

-----------------------------------------------------------------------------
(* mqtt_client.py: on_message, and asyncio.Queue as the code uses it *)

Entry(kind, id) == [kind |-> kind, id |-> id]

\* on_message, on the transport's thread: json.loads, then
\* asyncio.run_coroutine_threadsafe(queue.put((topic, payload)), loop),
\* whose result is not awaited: the callback returns at once.
OnMessage ==
    /\ ~mqtt_stopped
    /\ Len(delivered) < MsgBound
    /\ \E k \in Deliverable :
         /\ delivered' = Append(delivered, k)
         /\ IF k.json
            THEN /\ ready' = Append(ready, Entry("spawn", Len(delivered) + 1))
                 /\ UNCHANGED mqtt_warnings
            ELSE /\ mqtt_warnings' = mqtt_warnings \cup {Len(delivered) + 1}
                 /\ UNCHANGED ready
    /\ UNCHANGED <<aggVars, mqtt_stopped, ingest_queue, putters, getter_pending,
                   unfinished_tasks, ingest_at, ingest_cancel, db_state, current,
                   dequeued, acked, ingest_queue_size, ingested_messages,
                   ingest_failures>>

\* The event loop runs a callback only while no task is running.
LoopFree == ingest_at # "top"

\* The callback of run_coroutine_threadsafe: ensure_future(queue.put(...))
\* creates the task, whose first step is scheduled with call_soon.
RunSpawn ==
    /\ LoopFree
    /\ ready # <<>>
    /\ Head(ready).kind = "spawn"
    /\ ready' = Append(Tail(ready), Entry("put", Head(ready).id))
    /\ UNCHANGED <<aggVars, delivered, mqtt_stopped, mqtt_warnings, ingest_queue,
                   putters, getter_pending, unfinished_tasks, ingest_at,
                   ingest_cancel, db_state, current, dequeued, acked,
                   ingest_queue_size, ingested_messages, ingest_failures>>

\* asyncio.Queue.full()
QueueFull == maxsize > 0 /\ Len(ingest_queue) >= maxsize

\* A step of the coroutine queue.put(item), first or after a wake-up:
\* while self.full(): wait in _putters; then put_nowait(item), which wakes
\* the pending getter.
RunPut ==
    /\ LoopFree
    /\ ready # <<>>
    /\ Head(ready).kind = "put"
    /\ IF QueueFull
       THEN /\ putters' = Append(putters, Head(ready).id)
            /\ ready' = Tail(ready)
            /\ UNCHANGED <<ingest_queue, unfinished_tasks, getter_pending>>
       ELSE /\ ingest_queue' = Append(ingest_queue, Head(ready).id)
            /\ unfinished_tasks' = unfinished_tasks + 1
            /\ getter_pending' = FALSE
            /\ ready' = IF getter_pending
                        THEN Append(Tail(ready), Entry("ingest", 0))
                        ELSE Tail(ready)
            /\ UNCHANGED putters
    /\ UNCHANGED <<aggVars, delivered, mqtt_stopped, mqtt_warnings, ingest_at,
                   ingest_cancel, db_state, current, dequeued, acked,
                   ingest_queue_size, ingested_messages, ingest_failures>>

-----------------------------------------------------------------------------
(* main.py: ingest_worker *)

\* Variant in which task_done() is called in the handler and again in the
\* finally clause.
TaskDoneTwice(id, q) ==
    /\ acked' = acked \o <<id, id>>
    /\ unfinished_tasks' = unfinished_tasks - 2
    /\ ingest_queue_size' = Len(q)
    /\ current' = 0

\* finally: queue.task_done(); ingest_queue_size.set(queue.qsize())
TaskDone(id, q) ==
    /\ acked' = Append(acked, id)
    /\ unfinished_tasks' = unfinished_tasks - 1
    /\ ingest_queue_size' = Len(q)
    /\ current' = 0

\* One iteration of the loop, from queue.get() to the next await.  With the
\* queue empty the worker waits in _getters.  Otherwise get_nowait() takes
\* the head and wakes the first waiting put; then the gauge is set, and the
\* item is discarded (bad topic: continue; invalid: except Exception) or
\* its INSERT is awaited.
IngestIterate ==
    /\ ingest_at = "top"
    /\ IF ingest_queue = <<>>
       THEN /\ ingest_at' = "get"
            /\ getter_pending' = TRUE
            /\ UNCHANGED <<ready, ingest_queue, putters, unfinished_tasks,
                           db_state, current, dequeued, acked, ingest_queue_size,
                           ingest_failures>>
       ELSE LET id == Head(ingest_queue)
                q == Tail(ingest_queue)
                msg == delivered[id]
                city == extract_city(msg.topic)
                data == MergeCity(msg.payload, The(city))
            IN /\ ingest_queue' = q
               /\ dequeued' = Append(dequeued, id)
               /\ IF putters # <<>>
                  THEN /\ ready' = Append(ready, Entry("put", Head(putters)))
                       /\ putters' = Tail(putters)
                  ELSE UNCHANGED <<ready, putters>>
               /\ UNCHANGED getter_pending
               /\ IF ~CityUsable(city)
                  THEN /\ TaskDone(id, q)
                       /\ ingest_at' = "top"
                       /\ UNCHANGED <<db_state, ingest_failures>>
                  ELSE IF ~ObservationValid(data)
                  THEN /\ ingest_failures' = ingest_failures + 1
                       /\ TaskDone(id, q)
                       /\ ingest_at' = "top"
                       /\ UNCHANGED db_state
                  ELSE /\ ingest_at' = "db"
                       /\ db_state' = "pending"
                       /\ current' = id
                       /\ ingest_queue_size' = Len(q)
                       /\ UNCHANGED <<acked, unfinished_tasks, ingest_failures>>
    /\ UNCHANGED <<aggVars, delivered, mqtt_stopped, mqtt_warnings,
                   ingest_cancel, ingested_messages>>

\* The row the worker is inserting.
CurrentRow ==
    LET msg == delivered[current]
    IN ObservationRow(MergeCity(msg.payload, The(extract_city(msg.topic))))

\* The store answers the INSERT: it is done, or it failed.
DbDone ==
    /\ ingest_at = "db"
    /\ db_state = "pending"
    /\ \E ok \in BOOLEAN :
         IF ok
         THEN /\ observations' = Append(observations, CurrentRow)
              /\ synced' = 0
              /\ db_state' = "ok"
         ELSE /\ db_state' = "failed"
              /\ UNCHANGED <<observations, synced>>
    /\ ready' = Append(ready, Entry("ingest", 0))
    /\ UNCHANGED <<aggRest, delivered, mqtt_stopped, mqtt_warnings, ingest_queue,
                   putters, getter_pending, unfinished_tasks, ingest_at,
                   ingest_cancel, current, dequeued, acked, ingest_queue_size,
                   ingested_messages, ingest_failures>>

\* Variant of RunIngest without the except clause around queue.get(): the
\* CancelledError leaves the task.
RunIngestGetUncaught ==
    /\ LoopFree
    /\ ready # <<>>
    /\ Head(ready).kind = "ingest"
    /\ ready' = Tail(ready)
    /\ IF ingest_cancel
       THEN /\ ingest_cancel' = FALSE
            /\ UNCHANGED <<ingested_messages, ingest_failures>>
            /\ IF ingest_at = "db"
               THEN /\ TaskDone(current, ingest_queue)
                    /\ ingest_at' = "cancelled"
               ELSE /\ ingest_at' = "cancelled"
                    /\ UNCHANGED <<acked, unfinished_tasks, ingest_queue_size,
                                   current>>
       ELSE /\ UNCHANGED ingest_cancel
            /\ ingest_at' = "top"
            /\ IF ingest_at = "db"
               THEN /\ TaskDone(current, ingest_queue)
                    /\ IF db_state = "ok"
                       THEN /\ ingested_messages' = ingested_messages + 1
                            /\ UNCHANGED ingest_failures
                       ELSE /\ ingest_failures' = ingest_failures + 1
                            /\ UNCHANGED ingested_messages
               ELSE UNCHANGED <<acked, unfinished_tasks, ingest_queue_size,
                                current, ingested_messages, ingest_failures>>
    /\ db_state' = "none"
    /\ UNCHANGED <<aggVars, delivered, mqtt_stopped, mqtt_warnings, ingest_queue,
                   putters, getter_pending, dequeued>>

\* Variant of RunIngest in which a failed INSERT is counted as ingested
\* as well.
RunIngestCountsFailure ==
    /\ LoopFree
    /\ ready # <<>>
    /\ Head(ready).kind = "ingest"
    /\ ready' = Tail(ready)
    /\ IF ingest_cancel
       THEN /\ ingest_cancel' = FALSE
            /\ UNCHANGED <<ingested_messages, ingest_failures>>
            /\ IF ingest_at = "db"
               THEN /\ TaskDone(current, ingest_queue)
                    /\ ingest_at' = "cancelled"
               ELSE /\ ingest_at' = IF ingest_at = "get" THEN "exited"
                                    ELSE "cancelled"
                    /\ UNCHANGED <<acked, unfinished_tasks, ingest_queue_size,
                                   current>>
       ELSE /\ UNCHANGED ingest_cancel
            /\ ingest_at' = "top"
            /\ IF ingest_at = "db"
               THEN /\ TaskDone(current, ingest_queue)
                    /\ IF db_state = "ok"
                       THEN /\ ingested_messages' = ingested_messages + 1
                            /\ UNCHANGED ingest_failures
                       ELSE /\ ingest_failures' = ingest_failures + 1
                            /\ ingested_messages' = ingested_messages + 1
               ELSE UNCHANGED <<acked, unfinished_tasks, ingest_queue_size,
                                current, ingested_messages, ingest_failures>>
    /\ db_state' = "none"
    /\ UNCHANGED <<aggVars, delivered, mqtt_stopped, mqtt_warnings, ingest_queue,
                   putters, getter_pending, dequeued>>

\* The event loop resumes ingest_worker.  A pending cancellation is thrown
\* at the await: queue.get() catches it and the loop breaks; at the INSERT
\* it is no Exception, so only the finally clause runs and the task ends.
\* Otherwise the worker goes on: after the INSERT ingested_messages.inc(),
\* or ingest_failures.inc() in except Exception, and the finally clause.
RunIngest ==
    /\ LoopFree
    /\ ready # <<>>
    /\ Head(ready).kind = "ingest"
    /\ ready' = Tail(ready)
    /\ IF ingest_cancel
       THEN /\ ingest_cancel' = FALSE
            /\ UNCHANGED <<ingested_messages, ingest_failures>>
            /\ IF ingest_at = "db"
               THEN /\ TaskDone(current, ingest_queue)
                    /\ ingest_at' = "cancelled"
               ELSE /\ ingest_at' = IF ingest_at = "get" THEN "exited"
                                    ELSE "cancelled"
                    /\ UNCHANGED <<acked, unfinished_tasks, ingest_queue_size,
                                   current>>
       ELSE /\ UNCHANGED ingest_cancel
            /\ ingest_at' = "top"
            /\ IF ingest_at = "db"
               THEN /\ TaskDone(current, ingest_queue)
                    /\ IF db_state = "ok"
                       THEN /\ ingested_messages' = ingested_messages + 1
                            /\ UNCHANGED ingest_failures
                       ELSE /\ ingest_failures' = ingest_failures + 1
                            /\ UNCHANGED ingested_messages
               ELSE UNCHANGED <<acked, unfinished_tasks, ingest_queue_size,
                                current, ingested_messages, ingest_failures>>
    /\ db_state' = "none"
    /\ UNCHANGED <<aggVars, delivered, mqtt_stopped, mqtt_warnings, ingest_queue,
                   putters, getter_pending, dequeued>>

\* main.py lifespan, shutdown: stop_mqtt_listener(mqtt_client);
\* ingest_task.cancel().  A pending future the task waits on is cancelled
\* and the task is scheduled; a task that is already scheduled is marked.
\* An INSERT that is cancelled while pending may or may not have been done.
IngestCancel ==
    /\ ~mqtt_stopped
    /\ ingest_at \in {"start", "get", "db"}
    /\ mqtt_stopped' = TRUE
    /\ ingest_cancel' = TRUE
    /\ getter_pending' = FALSE
    /\ IF ingest_at = "db" /\ db_state = "pending"
       THEN /\ \E stored \in BOOLEAN :
                 IF stored
                 THEN /\ observations' = Append(observations, CurrentRow)
                      /\ synced' = 0
                 ELSE UNCHANGED <<observations, synced>>
            /\ db_state' = "cancelled"
            /\ ready' = Append(ready, Entry("ingest", 0))
       ELSE /\ ready' = IF getter_pending THEN Append(ready, Entry("ingest", 0))
                        ELSE ready
            /\ UNCHANGED <<observations, synced, db_state>>
    /\ UNCHANGED <<aggRest, delivered, mqtt_warnings, ingest_queue, putters,
                   unfinished_tasks, ingest_at, current, dequeued, acked,
                   ingest_queue_size, ingested_messages, ingest_failures>>

\* A stream of messages without end in finitely many states.  This is a
\* step of the model, not of the program: what is recorded about the
\* messages that are finished (acknowledged, or dropped by on_message) is
\* forgotten, and the messages that are left are numbered anew in their
\* order of arrival.  The store and the counters are those of a run that
\* began after the finished messages: the row of the item in process, if
\* its INSERT was done, and no other.
Live == {i \in DOMAIN delivered : i \notin Range(acked) /\ i \notin mqtt_warnings}

Rank(i) == Cardinality({j \in Live : j <= i})

Renumbered(seq) == [k \in DOMAIN seq |-> Rank(seq[k])]

Forget ==
    /\ ~mqtt_stopped
    /\ ~ingest_cancel
    /\ Live # DOMAIN delivered
    /\ delivered' = [k \in 1..Cardinality(Live) |->
                        delivered[CHOOSE i \in Live : Rank(i) = k]]
    /\ mqtt_warnings' = {}
    /\ ready' = [k \in DOMAIN ready |->
                    IF ready[k].id = 0 THEN ready[k]
                    ELSE Entry(ready[k].kind, Rank(ready[k].id))]
    /\ ingest_queue' = Renumbered(ingest_queue)
    /\ putters' = Renumbered(putters)
    /\ current' = IF current = 0 THEN 0 ELSE Rank(current)
    /\ dequeued' = IF current = 0 THEN <<>> ELSE <<Rank(current)>>
    /\ acked' = <<>>
    /\ observations' = IF current # 0 /\ db_state = "ok"
                       THEN <<observations[Len(observations)]>>
                       ELSE <<>>
    /\ ingested_messages' = 0
    /\ ingest_failures' = 0
    /\ UNCHANGED <<aggRest, synced, mqtt_stopped, getter_pending, unfinished_tasks,
                   ingest_at, ingest_cancel, db_state, ingest_queue_size>>

-----------------------------------------------------------------------------
(* Specifications *)

\* The ingestion stage before lifespan starts it.
IngestIdle ==
    /\ delivered = <<>>
    /\ mqtt_stopped = TRUE
    /\ mqtt_warnings = {}
    /\ ready = <<>>
    /\ ingest_queue = <<>>
    /\ putters = <<>>
    /\ getter_pending = FALSE
    /\ unfinished_tasks = 0
    /\ ingest_at = "start"
    /\ ingest_cancel = FALSE
    /\ db_state = "none"
    /\ current = 0
    /\ dequeued = <<>>
    /\ acked = <<>>
    /\ ingest_queue_size = 0
    /\ ingested_messages = 0
    /\ ingest_failures = 0

\* main.py lifespan: aggregate_task = create_task(aggregate_worker(...))
InitAgg ==
    /\ now = 0
    /\ observations = <<>>
    /\ aggregates = {}
    /\ alerts = <<>>
    /\ published = <<>>
    /\ publish_warnings = <<>>
    /\ agg_pc = "refresh"
    /\ agg_mode = "worker"
    /\ windows = DEFAULT_WINDOWS
    /\ alert_rules = DEFAULT_RULES
    /\ refreshed = {}
    /\ synced = 0
    /\ win_idx = 1
    /\ detected = <<>>
    /\ pidx = 1
    /\ emitted = 0
    /\ skipped = {}
    /\ inserted = {}
    /\ hist_len = 0
    /\ alerts_emitted = 0
    /\ aggregate_runs = 0
    /\ IngestIdle

NextAgg ==
    \/ ObservationStored
    \/ RefreshStep
    \/ EvaluateStep
    \/ PersistCheck
    \/ PersistInsert
    \/ SleepEnds
    \/ AggCancel
    \/ Tick

SpecAgg == InitAgg /\ [][NextAgg]_vars

\* persist_and_publish_alerts called once, with a candidate list and an
\* alert history drawn from the alerts the rules can make.
CallNow == alert_cooldown_minutes
CandidateTimes == {0, 5, alert_cooldown_minutes}

CandidateAlerts ==
    { MakeAlert([city_id |-> c, bucket_start |-> t], DEFAULT_RULES[i])
      : c \in Range(Cities), t \in CandidateTimes, i \in {1, 2} }

SeqsUpTo(S, n) == UNION {[1..k -> S] : k \in 0..n}

InitPersist ==
    /\ now = CallNow
    /\ observations = <<>>
    /\ aggregates = {}
    /\ alerts \in SeqsUpTo(CandidateAlerts, 1)
    /\ published = <<>>
    /\ publish_warnings = <<>>
    /\ agg_pc = "call"
    /\ agg_mode = "call"
    /\ windows = DEFAULT_WINDOWS
    /\ alert_rules = DEFAULT_RULES
    /\ refreshed = {}
    /\ synced = 0
    /\ win_idx = 1
    /\ detected \in SeqsUpTo(CandidateAlerts, MaxCandidates)
    /\ pidx = 1
    /\ emitted = 0
    /\ skipped = {}
    /\ inserted = {}
    /\ hist_len = Len(alerts)
    /\ alerts_emitted = 0
    /\ aggregate_runs = 0
    /\ IngestIdle

NextPersist ==
    \/ PersistCall
    \/ PersistCheck
    \/ PersistInsert
    \/ Tick

SpecPersist == InitPersist /\ [][NextPersist]_vars

\* main.py lifespan: the queue is created, the listener started, and
\* ingest_task = create_task(ingest_worker(...)) scheduled; the aggregate
\* worker is left out.
InitIngest ==
    /\ now = 0
    /\ observations = <<>>
    /\ aggregates = {}
    /\ alerts = <<>>
    /\ published = <<>>
    /\ publish_warnings = <<>>
    /\ agg_pc = "off"
    /\ agg_mode = "off"
    /\ windows = DEFAULT_WINDOWS
    /\ alert_rules = DEFAULT_RULES
    /\ refreshed = {}
    /\ synced = 0
    /\ win_idx = 1
    /\ detected = <<>>
    /\ pidx = 1
    /\ emitted = 0
    /\ skipped = {}
    /\ inserted = {}
    /\ hist_len = 0
    /\ alerts_emitted = 0
    /\ aggregate_runs = 0
    /\ delivered = <<>>
    /\ mqtt_stopped = FALSE
    /\ mqtt_warnings = {}
    /\ ready = <<Entry("ingest", 0)>>
    /\ ingest_queue = <<>>
    /\ putters = <<>>
    /\ getter_pending = FALSE
    /\ unfinished_tasks = 0
    /\ ingest_at = "start"
    /\ ingest_cancel = FALSE
    /\ db_state = "none"
    /\ current = 0
    /\ dequeued = <<>>
    /\ acked = <<>>
    /\ ingest_queue_size = 0
    /\ ingested_messages = 0
    /\ ingest_failures = 0

NextIngest ==
    \/ OnMessage
    \/ RunSpawn
    \/ RunPut
    \/ RunIngest
    \/ IngestIterate
    \/ DbDone
    \/ IngestCancel

SpecIngest == InitIngest /\ [][NextIngest]_vars

\* The ingestion stage under a stream of messages that does not end and
\* without shutdown.  The event loop runs the callbacks that are ready, the
\* worker goes on when it is resumed, and the store answers every INSERT.
InitStream ==
    /\ now = 0
    /\ observations = <<>>
    /\ aggregates = {}
    /\ alerts = <<>>
    /\ published = <<>>
    /\ publish_warnings = <<>>
    /\ agg_pc = "off"
    /\ agg_mode = "stream"
    /\ windows = DEFAULT_WINDOWS
    /\ alert_rules = DEFAULT_RULES
    /\ refreshed = {}
    /\ synced = 0
    /\ win_idx = 1
    /\ detected = <<>>
    /\ pidx = 1
    /\ emitted = 0
    /\ skipped = {}
    /\ inserted = {}
    /\ hist_len = 0
    /\ alerts_emitted = 0
    /\ aggregate_runs = 0
    /\ delivered = <<>>
    /\ mqtt_stopped = FALSE
    /\ mqtt_warnings = {}
    /\ ready = <<Entry("ingest", 0)>>
    /\ ingest_queue = <<>>
    /\ putters = <<>>
    /\ getter_pending = FALSE
    /\ unfinished_tasks = 0
    /\ ingest_at = "start"
    /\ ingest_cancel = FALSE
    /\ db_state = "none"
    /\ current = 0
    /\ dequeued = <<>>
    /\ acked = <<>>
    /\ ingest_queue_size = 0
    /\ ingested_messages = 0
    /\ ingest_failures = 0

NextStream ==
    \/ OnMessage
    \/ RunSpawn
    \/ RunPut
    \/ RunIngest
    \/ IngestIterate
    \/ DbDone
    \/ Forget

SpecStream ==
    /\ InitStream
    /\ [][NextStream]_vars
    /\ WF_vars(RunSpawn)
    /\ WF_vars(RunPut)
    /\ WF_vars(RunIngest)
    /\ WF_vars(IngestIterate)
    /\ WF_vars(DbDone)

\* The two workers lifespan starts, each taken with the other left out: the
\* aggregate worker with observations arriving, or the ingestion stage.
InitWorkers == InitAgg \/ InitIngest

NextWorkers == NextAgg \/ NextIngest

SpecWorkers == InitWorkers /\ [][NextWorkers]_vars

\* Ingestion together with the first cycle of the aggregate worker: lifespan
\* has started the listener and both tasks.
InitPipeline ==
    /\ now = 0
    /\ observations = <<>>
    /\ aggregates = {}
    /\ alerts = <<>>
    /\ published = <<>>
    /\ publish_warnings = <<>>
    /\ agg_pc = "refresh"
    /\ agg_mode = "worker"
    /\ windows = DEFAULT_WINDOWS
    /\ alert_rules = DEFAULT_RULES
    /\ refreshed = {}
    /\ synced = 0
    /\ win_idx = 1
    /\ detected = <<>>
    /\ pidx = 1
    /\ emitted = 0
    /\ skipped = {}
    /\ inserted = {}
    /\ hist_len = 0
    /\ alerts_emitted = 0
    /\ aggregate_runs = 0
    /\ delivered = <<>>
    /\ mqtt_stopped = FALSE
    /\ mqtt_warnings = {}
    /\ ready = <<Entry("ingest", 0)>>
    /\ ingest_queue = <<>>
    /\ putters = <<>>
    /\ getter_pending = FALSE
    /\ unfinished_tasks = 0
    /\ ingest_at = "start"
    /\ ingest_cancel = FALSE
    /\ db_state = "none"
    /\ current = 0
    /\ dequeued = <<>>
    /\ acked = <<>>
    /\ ingest_queue_size = 0
    /\ ingested_messages = 0
    /\ ingest_failures = 0

NextPipeline ==
    \/ OnMessage
    \/ RunSpawn
    \/ RunPut
    \/ RunIngest
    \/ IngestIterate
    \/ DbDone
    \/ RefreshStep
    \/ EvaluateStep
    \/ PersistCheck
    \/ PersistInsert

SpecPipeline == InitPipeline /\ [][NextPipeline]_vars

\* refresh_all(pool, windows) called directly, again and again, while
\* observations arrive and time passes between the calls.
WindowLists ==
    { DEFAULT_WINDOWS,
      << [window |-> <<"1", "hour">>, lookback |-> <<"1", "hour">>] >>,
      << [window |-> <<"15", "minutes">>, lookback |-> <<"1", "hour">>] >>,
      << [window |-> <<"0", "minutes">>, lookback |-> <<"6", "hours">>],
         [window |-> <<"1", "hour">>, lookback |-> <<"72", "hours">>] >>,
      << [window |-> <<"15", "minutes">>, lookback |-> <<"soon">>],
         [window |-> <<"1", "hour">>, lookback |-> <<"72", "hours">>] >>,
      << [window |-> <<"1", "hour">>, lookback |-> <<"2", "weeks">>],
         [window |-> <<"one", "hour">>, lookback |-> <<"6", "hours">>],
         [window |-> <<"15", "minutes">>, lookback |-> <<"6", "hours">>] >>,
      << >> }

\* await refresh_all(pool, windows): a further call
RefreshCall ==
    /\ agg_mode = "refresh_all"
    /\ agg_pc \in {"returned", "raised"}
    /\ agg_pc' = "refresh"
    /\ win_idx' = 1
    /\ refreshed' = {}
    /\ UNCHANGED <<now, observations, aggregates, alerts, published,
                   publish_warnings, agg_mode, windows, alert_rules, synced,
                   persistLocals, hist_len, alerts_emitted, aggregate_runs,
                   ingVars>>

InitRefresh ==
    /\ now = 0
    /\ observations = <<>>
    /\ aggregates = {}
    /\ alerts = <<>>
    /\ published = <<>>
    /\ publish_warnings = <<>>
    /\ agg_pc = "refresh"
    /\ agg_mode = "refresh_all"
    /\ windows \in WindowLists
    /\ alert_rules = DEFAULT_RULES
    /\ refreshed = {}
    /\ synced = 0
    /\ win_idx = 1
    /\ detected = <<>>
    /\ pidx = 1
    /\ emitted = 0
    /\ skipped = {}
    /\ inserted = {}
    /\ hist_len = 0
    /\ alerts_emitted = 0
    /\ aggregate_runs = 0
    /\ IngestIdle

NextRefresh ==
    \/ RefreshStep
    \/ RefreshCall
    \/ ObservationStored
    \/ Tick

SpecRefresh == InitRefresh /\ [][NextRefresh]_vars

\* evaluate_latest_buckets(pool, rules) called once, for one rule and a
\* table of aggregates with one row.
EvalValues == {{}, {Frac(3999, 1)}, {Frac(4000, 1)}, {Frac(4001, 1)},
               {Frac(8001, 2)}}

EvalOps == {">", "<", ">=", "<=", "=="}

EvalFields == {"wind_avg", "temp_max", "pressure_avg"}

EvalRows ==
    { [city_id |-> "toronto", bucket_start |-> 0, bucket_width |-> 60,
       temp_avg |-> {}, temp_min |-> {}, temp_max |-> t, humidity_avg |-> {},
       wind_avg |-> w, created_at |-> 0] : t \in EvalValues, w \in EvalValues }

EvalRules ==
    { << [name |-> "rule", level |-> "warning", field |-> f, op |-> o,
          threshold |-> 4000, window |-> <<"1", "hour">>,
          message |-> "Threshold crossed"] >> : f \in EvalFields, o \in EvalOps }

InitEval ==
    /\ now = 0
    /\ observations = <<>>
    /\ aggregates \in {{r} : r \in EvalRows}
    /\ alerts = <<>>
    /\ published = <<>>
    /\ publish_warnings = <<>>
    /\ agg_pc = "evaluate"
    /\ agg_mode = "evaluate"
    /\ windows = DEFAULT_WINDOWS
    /\ alert_rules \in EvalRules
    /\ refreshed = {}
    /\ synced = 0
    /\ win_idx = 1
    /\ detected = <<>>
    /\ pidx = 1
    /\ emitted = 0
    /\ skipped = {}
    /\ inserted = {}
    /\ hist_len = 0
    /\ alerts_emitted = 0
    /\ aggregate_runs = 0
    /\ IngestIdle

NextEval == EvaluateStep

SpecEval == InitEval /\ [][NextEval]_vars

-----------------------------------------------------------------------------
(* Properties of the alert deduplicator and publisher *)

Abs(x) == IF x < 0 THEN -x ELSE x

SameKey(a, b) == a.city_id = b.city_id /\ a.rule = b.rule

\* C1: for every (entity id, rule name), any two persisted alerts have
\* triggered-at timestamps at least the cooldown apart.
C1_CooldownApart ==
    \A i, j \in DOMAIN alerts :
        (i < j /\ SameKey(alerts[i], alerts[j]))
            => Abs(alerts[i].triggered_at - alerts[j].triggered_at)
                  >= alert_cooldown_minutes

\* C2: two candidates for the same (entity id, rule name) less than the
\* cooldown apart, fed to one call with an empty alert history: exactly one
\* is persisted and published, the other is skipped.
C2_ExactlyOne ==
    ( /\ agg_pc = "returned"
      /\ hist_len = 0
      /\ Len(detected) = 2
      /\ SameKey(detected[1], detected[2])
      /\ Abs(detected[1].triggered_at - detected[2].triggered_at)
            < alert_cooldown_minutes )
    => /\ Cardinality(inserted) = 1
       /\ Cardinality(skipped) = 1
       /\ Len(published) = 1

\* An alert of the candidate's (entity id, rule name) with
\* triggered-at >= now - cooldown is stored.
StoredInCooldown(alert) ==
    \E i \in DOMAIN alerts :
        /\ SameKey(alerts[i], alert)
        /\ alerts[i].triggered_at + alert_cooldown_minutes >= now

\* C3: a candidate for which such an alert is stored is neither inserted nor
\* published; publish is called only together with the insert of the alert
\* it carries, so what was published is a part of what was persisted.
C3_SkipStep ==
    (agg_pc = "persist_check" /\ StoredInCooldown(detected[pidx]))
        => /\ alerts' = alerts
           /\ published' = published
           /\ agg_pc' # "persist_insert"
           /\ pidx \notin inserted'

C3_PublishWithInsert ==
    (published' # published)
        => /\ alerts' = Append(alerts, detected[pidx])
           /\ Len(published') = Len(published) + 1
           /\ published'[Len(published')].message = model_dump(detected[pidx])

C3_SkipWithinCooldown ==
    /\ [][C3_SkipStep /\ C3_PublishWithInsert]_vars
    /\ [](Len(published) <= Len(alerts) - hist_len)

C3_Witness ==
    /\ agg_pc = "returned"
    /\ skipped # {}
    /\ inserted # {}

\* C4: every alert the call newly persists is handed to the notification
\* channel exactly once, on topic alerts/<entity id>, unless the channel's
\* publish call itself failed.
ChannelFailures ==
    Cardinality({k \in DOMAIN publish_warnings : publish_warnings[k].cause = "publish"})

C4_PublishedOnce ==
    /\ Len(published) + ChannelFailures = Cardinality(inserted)
    /\ \A k \in DOMAIN published :
          \E i \in inserted :
              /\ published[k].topic = <<"alerts", detected[i].city_id>>
              /\ published[k].message = model_dump(detected[i])

\* C5: when the publish of a newly persisted alert fails, nothing is raised
\* out of the call, the alert stays stored and is counted, and the loop goes
\* on with the next candidate; a call that returns has handled every
\* candidate and returns the number it inserted.
C5_PublishFailureStep ==
    (Len(publish_warnings') > Len(publish_warnings))
        => /\ alerts' = Append(alerts, detected[pidx])
           /\ emitted' = emitted + 1
           /\ pidx \in inserted'
           /\ agg_pc' = IF pidx < Len(detected) THEN "persist_check" ELSE "returned"
           /\ pidx' = IF pidx < Len(detected) THEN pidx + 1 ELSE pidx

C5_AlertsKept ==
    /\ Len(alerts') >= Len(alerts)
    /\ SubSeq(alerts', 1, Len(alerts)) = alerts

C5_PublishFailureIsolated ==
    /\ [][C5_PublishFailureStep /\ C5_AlertsKept]_vars
    /\ [](agg_pc = "returned" =>
            /\ inserted \cup skipped = DOMAIN detected
            /\ emitted = Cardinality(inserted)
            /\ emitted = Len(alerts) - hist_len)

C5_Witness ==
    /\ agg_pc = "returned"
    /\ Len(publish_warnings) = 2
    /\ inserted = {1, 2}
    /\ emitted = 2

-----------------------------------------------------------------------------
(* Properties of the ingestion stage *)

Last(seq) == seq[Len(seq)]

Count(seq, x) == Cardinality({i \in DOMAIN seq : seq[i] = x})

\* The step dequeues an item; NewItem is the message it took.
Dequeues == Len(dequeued') = Len(dequeued) + 1
NewItem == delivered[Last(dequeued')]

\* The step stores an observation.
Stores == Len(observations') = Len(observations) + 1

\* C6: an observation stored for a message whose payload names another
\* entity id than its topic carries the entity id of the topic.
C6_TopicCityStored ==
    [][ (Stores /\ current # 0)
          => Last(observations').city_id = The(extract_city(delivered[current].topic)) ]_vars

\* The topic has the shape city/<entity-id>/observations.
TopicShapeOk(parts) ==
    /\ Len(parts) = 3
    /\ parts[1] = "city"
    /\ parts[2] # ""
    /\ parts[3] = "observations"

\* C7: a dequeued message whose topic has another shape is discarded:
\* nothing is stored, ingest_failures grows by one, and the loop goes on.
C7_BadTopicCounted ==
    [][ (Dequeues /\ ~TopicShapeOk(NewItem.topic))
          => /\ observations' = observations
             /\ ingest_failures' = ingest_failures + 1
             /\ ingest_at' = "top" ]_vars

\* The payload fails the validation of Observation: it is no object, or
\* source or observed_at is missing.
PayloadInvalid(payload) ==
    \/ ~payload.isdict
    \/ payload.fields.source = {}
    \/ payload.fields.observed_at = {}

\* C8: a dequeued message with such a payload is discarded: nothing is
\* stored for it, ingest_failures grows by exactly one, ingested_messages
\* stays, and the worker goes on with the next message.
C8_InvalidStep ==
    (Dequeues /\ TopicShapeOk(NewItem.topic) /\ PayloadInvalid(NewItem.payload))
        => /\ observations' = observations
           /\ ingest_failures' = ingest_failures + 1
           /\ ingested_messages' = ingested_messages
           /\ ingest_at' = "top"
           /\ current' = 0
           /\ Last(acked') = Last(dequeued')

C8_InvalidDiscarded == [][C8_InvalidStep]_vars

C8_Witness ==
    /\ Len(dequeued) = 2
    /\ PayloadInvalid(delivered[dequeued[1]].payload)
    /\ ingest_failures = 1
    /\ ingested_messages = 1
    /\ Len(observations) = 1

\* The ids of the put() calls that are scheduled on the event loop.
ScheduledPuts == {i \in DOMAIN ready : ready[i].kind \in {"spawn", "put"}}

\* C9: task_done is called exactly once for every dequeued item, whatever
\* became of it (once its processing has ended), and a dequeued item is not
\* dequeued again nor put back.
C9_AckedExactlyOnce ==
    /\ \A i, j \in DOMAIN dequeued : i # j => dequeued[i] # dequeued[j]
    /\ \A k \in DOMAIN dequeued :
          Count(acked, dequeued[k]) = IF dequeued[k] = current THEN 0 ELSE 1
    /\ \A k \in DOMAIN acked : Count(dequeued, acked[k]) = 1
    /\ \A k \in DOMAIN dequeued :
          /\ Count(ingest_queue, dequeued[k]) = 0
          /\ Count(putters, dequeued[k]) = 0
          /\ \A i \in ScheduledPuts : ready[i].id # dequeued[k]
    /\ current # 0 => ingest_at = "db"
    /\ unfinished_tasks = Len(ingest_queue) + (IF current # 0 THEN 1 ELSE 0)

C9_Witness ==
    /\ ingest_at = "cancelled"
    /\ Len(dequeued) = 3
    /\ Len(acked) = 3
    /\ ingest_failures = 1
    /\ ingested_messages = 1

\* C10: with the queue at its capacity a further enqueue blocks the
\* callback until an item is dequeued, so that besides the items in the
\* queue at most the one message of the blocked callback awaits ingestion.
C10_Backpressure ==
    QueueFull => Len(putters) + Cardinality(ScheduledPuts) <= 1

\* C11: the ingestion stage dequeues the messages in the order in which
\* on_message handed them over, whatever the interleaving of the callback
\* thread and the event loop, also while the queue is full and several
\* put() calls wait for space.
C11_FifoDequeue ==
    \A i, j \in DOMAIN dequeued : i < j => dequeued[i] < dequeued[j]

-----------------------------------------------------------------------------
(* Properties of the aggregate worker *)

\* The store raises in the refresh of the pair win_idx: the step leaves the
\* refresh phase although a pair is left.
C12_FailureBeforeLastPair ==
    /\ agg_mode = "worker"
    /\ agg_pc = "refresh"
    /\ win_idx < Len(windows)

\* C12: within one cycle the refresh of every later pair is still executed
\* when the refresh of one pair fails: while a pair is left, only
\* cancellation takes the worker out of the refresh phase.
C12_LaterPairsRefreshed ==
    [][C12_FailureBeforeLastPair => agg_pc' \in {"refresh", "cancelled"}]_vars

\* The places of aggregate_worker inside its loop, and after it.
AggInLoop == {"refresh", "evaluate", "persist_check", "persist_insert", "sleep"}
AggEnded == {"exited", "cancelled"}

\* The places of ingest_worker inside its loop, and after it.
IngestInLoop == {"start", "top", "get", "db"}
IngestEnded == {"exited", "cancelled"}

\* A step in which the store or the validation failed for the item.
IngestErrorStep == ingest_failures' = ingest_failures + 1

C13_AggStep ==
    (agg_mode = "worker" /\ agg_pc \in AggInLoop /\ agg_pc' \notin AggInLoop)
        => AggCancel

C13_IngestStep ==
    /\ (ingest_at \in IngestInLoop /\ ingest_at' \notin IngestInLoop)
          => (ingest_cancel /\ ingest_at' \in IngestEnded)
    /\ IngestErrorStep => ingest_at' = "top"

\* C13: no error of a step of a cycle ends aggregate_worker and no error
\* while a message is processed ends ingest_worker: the aggregate worker is
\* then in its sleep phase, from which the next cycle starts, the ingest
\* worker goes to the next dequeue, and only cancellation ends the loops.
C13_WorkersSurviveErrors ==
    /\ [](agg_mode = "worker" => agg_pc \in AggInLoop \cup AggEnded)
    /\ [](ingest_at \in IngestInLoop \cup IngestEnded)
    /\ []((agg_mode = "worker" /\ agg_pc = "sleep" /\ now + 15 <= MaxNow)
            => ENABLED SleepEnds)
    /\ [][C13_AggStep /\ C13_IngestStep]_vars

\* The first cycle failed before refresh_all had ended, and a further
\* cycle has begun.
C13_Witness ==
    /\ agg_mode = "worker"
    /\ agg_pc = "refresh"
    /\ now > 0
    /\ aggregate_runs = 0

-----------------------------------------------------------------------------
(* Properties of the window aggregator *)

\* The step executes the upsert of the pair win_idx.
Refreshes == win_idx \notin refreshed /\ refreshed' = refreshed \cup {win_idx}

\* The rows of a table of aggregates without the refreshed marker.
Stats(table) == {[r EXCEPT !.created_at = 0] : r \in table}

\* C14: refresh_window run twice in succession for the same (window,
\* lookback), with no observation stored in between, leaves the aggregate
\* rows identical in keys and statistics; only created_at may differ.
C14_RefreshIdempotent ==
    [][(Refreshes /\ synced = win_idx) => Stats(aggregates') = Stats(aggregates)]_vars

Keys(table) == {AggKey(r) : r \in table}

C15_OverwriteStep ==
    /\ Keys(aggregates) \subseteq Keys(aggregates')
    /\ Refreshes =>
          Cardinality(aggregates') =
              Cardinality(Keys(aggregates)
                  \cup Keys(SelectGroups(_parse_window(windows[win_idx].window),
                                         _parse_window(windows[win_idx].lookback))))

\* C15: there is at most one aggregate row per (entity id, bucket start,
\* bucket width); a refresh that recomputes an existing key overwrites the
\* row and adds none.
C15_OneRowPerKey ==
    /\ [](\A r, q \in aggregates : AggKey(r) = AggKey(q) => r = q)
    /\ [][C15_OverwriteStep]_vars

\* A row was recomputed after a second observation of its bucket arrived.
C15_Witness ==
    \E r \in aggregates :
        /\ r.bucket_start = 0
        /\ r.created_at > 0
        /\ r.temp_avg = {Frac(3300, 1)}
        /\ Cardinality(aggregates) = 1

\* All stored observations of an entity in one bucket.
BucketObs(city, start, width) ==
    {i \in DOMAIN observations :
        /\ observations[i].city_id = city
        /\ time_bucket(width, observations[i].observed_at) = start}

C16_Reflected(i, width) ==
    LET o == observations[i]
        start == time_bucket(width, o.observed_at)
        g == BucketObs(o.city_id, start, width)
    IN (\E r \in aggregates : AggKey(r) = <<o.city_id, start, width>>)
          => \E r \in aggregates' :
                /\ AggKey(r) = <<o.city_id, start, width>>
                /\ r.temp_avg = SqlAvg(g, "temp_c")
                /\ r.temp_min = SqlMin(g, "temp_c")
                /\ r.temp_max = SqlMax(g, "temp_c")

\* C16: an observation stored with a timestamp inside a bucket that was
\* computed already, and within the lookback horizon: after the next refresh
\* of the window the bucket's avg/min/max are the statistics over the
\* bucket's observations, the new one included.
C16_LateArrivalReflected ==
    [][ Refreshes =>
          \A i \in InHorizon(_parse_window(windows[win_idx].lookback)) :
              C16_Reflected(i, _parse_window(windows[win_idx].window)) ]_vars

\* The pair has a window or a lookback of zero duration.
ZeroDuration(pair) ==
    _parse_window(pair.window) = 0 \/ _parse_window(pair.lookback) = 0

\* The step is one of refresh_all, at a pair of zero duration.
C17_AtZeroPair ==
    /\ agg_pc = "refresh"
    /\ win_idx <= Len(windows)
    /\ ZeroDuration(windows[win_idx])
    /\ <<agg_pc, win_idx, aggregates, refreshed>>' # <<agg_pc, win_idx, aggregates, refreshed>>
    /\ agg_pc' # "cancelled"

C17_SkipStep ==
    C17_AtZeroPair
        => /\ aggregates' = aggregates
           /\ refreshed' = refreshed
           /\ agg_pc' = IF win_idx < Len(windows) THEN "refresh"
                        ELSE IF agg_mode = "worker" THEN "evaluate"
                        ELSE "returned"
           /\ win_idx' = IF win_idx < Len(windows) THEN win_idx + 1 ELSE 1

\* C17: for a pair whose window or lookback parses to zero duration (an
\* unparsable string included) refresh_window writes nothing and raises
\* nothing, and a call of refresh_all that returns has refreshed every other
\* pair.
C17_ZeroDurationSkipped ==
    /\ [][C17_SkipStep]_vars
    /\ []((agg_mode = "refresh_all" /\ agg_pc = "returned")
            => refreshed = {i \in DOMAIN windows : ~ZeroDuration(windows[i])})

C17_Witness ==
    /\ agg_mode = "refresh_all"
    /\ agg_pc = "returned"
    /\ Len(windows) = 3
    /\ refreshed = {3}
    /\ aggregates # {}

-----------------------------------------------------------------------------
(* Properties of the rule evaluator *)

\* The rule of alert_rules an alert was made for.
RuleOf(alert) ==
    alert_rules[CHOOSE i \in DOMAIN alert_rules : alert_rules[i].name = alert.rule]

\* C18: evaluate_latest_buckets evaluates, per (entity id, window width),
\* only the row with the highest bucket start: every candidate alert carries
\* the start of the newest bucket of its entity and its rule's width.
C18_OnlyLatestBucket ==
    (agg_mode = "worker" /\ agg_pc \in {"persist_check", "persist_insert"})
        => \A k \in DOMAIN detected :
              \A r \in aggregates :
                  ( /\ r.city_id = detected[k].city_id
                    /\ r.bucket_width = _parse_window(RuleOf(detected[k]).window) )
                      => r.bucket_start <= detected[k].triggered_at

\* An older bucket is above the temperature threshold, a newer one of the
\* same entity and width is not, and no temperature alert is a candidate.
C18_Witness ==
    /\ agg_mode = "worker"
    /\ agg_pc = "persist_check"
    /\ \E old, new \in aggregates :
          /\ old.city_id = new.city_id
          /\ old.bucket_width = 60
          /\ new.bucket_width = 60
          /\ old.bucket_start < new.bucket_start
          /\ old.temp_max = {Frac(3600, 1)}
          /\ new.temp_max = {Frac(3000, 1)}
          /\ \A k \in DOMAIN detected :
                detected[k].city_id = old.city_id => detected[k].rule # "temp_high"

\* value <op> threshold for a fraction and a threshold in hundredths
Exceeds(v, threshold) == v.num > threshold * v.den
Equals(v, threshold) == v.num = threshold * v.den

C19_Expected(v, op, threshold) ==
    CASE op = ">"  -> Exceeds(v, threshold)
      [] op = ">=" -> Exceeds(v, threshold) \/ Equals(v, threshold)
      [] op = "<"  -> ~Exceeds(v, threshold) /\ ~Equals(v, threshold)
      [] op = "<=" -> ~Exceeds(v, threshold)

\* C19: for a present value the comparison is value > threshold, value <
\* threshold, value >= threshold, value <= threshold for '>', '<', '>=',
\* '<='; a value equal to the threshold triggers '>=' and '<=' and not '>'
\* and '<', and a value just above it triggers '>'.
C19_CompareBoundary ==
    (agg_mode = "evaluate" /\ agg_pc = "returned")
        => \A r \in aggregates :
              LET rule == alert_rules[1]
                  value == RowGet(r, rule.field)
              IN (value # {} /\ rule.op \in {">", "<", ">=", "<="})
                    => /\ (detected # <<>>)
                            <=> C19_Expected(The(value), rule.op, rule.threshold)
                       /\ (Equals(The(value), rule.threshold) /\ rule.op \in {">", "<"})
                            => detected = <<>>
                       /\ (Equals(The(value), rule.threshold) /\ rule.op \in {">=", "<="})
                            => detected # <<>>
                       /\ (value = {Frac(4001, 1)} /\ rule.op = ">")
                            => detected # <<>>

\* A wind average equal to the threshold, under '>': no alert.
C19_Witness ==
    /\ agg_mode = "evaluate"
    /\ agg_pc = "returned"
    /\ alert_rules[1].field = "wind_avg"
    /\ alert_rules[1].op = ">"
    /\ \E r \in aggregates : r.wind_avg = {Frac(4000, 1)}
    /\ detected = <<>>

\* if not alerts: return 0, before any statement and any publish
C20_EmptyStep ==
    (agg_pc = "call" /\ detected = <<>>)
        => /\ agg_pc' = "returned"
           /\ emitted' = 0
           /\ alerts' = alerts
           /\ published' = published
           /\ publish_warnings' = publish_warnings

\* The counter grows exactly with the inserts.
C20_CountStep == emitted' - emitted = Len(alerts') - Len(alerts)

\* C20: the count persist_and_publish_alerts returns is the number of
\* alerts it inserted in that call: candidates skipped by cooldown are not
\* counted, alerts whose publish failed are; with no candidate it returns
\* zero without a statement and without a publish.
C20_ReturnsInsertCount ==
    /\ [][C20_EmptyStep /\ C20_CountStep]_vars
    /\ []((agg_mode = "call" /\ agg_pc = "returned")
            => /\ emitted = Len(alerts) - hist_len
               /\ emitted = Len(detected) - Cardinality(skipped))

\* One candidate was skipped, one was inserted and its publish failed.
C20_Witness ==
    /\ agg_mode = "call"
    /\ agg_pc = "returned"
    /\ Len(detected) = 2
    /\ Cardinality(skipped) = 1
    /\ Len(publish_warnings) = 1
    /\ emitted = 1

-----------------------------------------------------------------------------
(* Properties of shutdown and of the metrics *)

\* C21: on shutdown (listener stopped, ingest task cancelled and ended)
\* the entries still pending in the queue are drained and discarded: the
\* queue is empty and no put() is left waiting.
C21_DrainedOnShutdown ==
    (mqtt_stopped /\ ingest_at \in {"exited", "cancelled"} /\ ScheduledPuts = {})
        => /\ ingest_queue = <<>>
           /\ putters = <<>>

\* The step in which the cancellation is delivered to a worker that waits
\* in queue.get().
C25_CancelAtGet ==
    /\ ingest_at = "get"
    /\ ingest_cancel
    /\ ingest_at' # "get"

C25_ExitStep ==
    C25_CancelAtGet
        => /\ ingest_at' = "exited"
           /\ dequeued' = dequeued
           /\ acked' = acked
           /\ observations' = observations
           /\ ingest_queue' = ingest_queue

C25_AfterExit ==
    (ingest_at = "exited")
        => /\ ingest_at' = "exited"
           /\ dequeued' = dequeued
           /\ acked' = acked
           /\ observations' = observations

\* C25: cancelling ingest_worker while it waits on the queue makes the loop
\* exit normally, and no further item is dequeued, stored or acknowledged.
C25_CancelAtQueueWait == [][C25_ExitStep /\ C25_AfterExit]_vars

\* The worker left the loop at the queue wait, and an item it did not take
\* is in the queue.
C25_Witness ==
    /\ ingest_at = "exited"
    /\ ingest_queue # <<>>
    /\ Len(dequeued) >= 1

\* C27: the gauge ingest_queue_size equals the depth of the queue after
\* every enqueue and after every dequeue.
C27_GaugeTracksDepth ==
    [][(ingest_queue' # ingest_queue) => ingest_queue_size' = Len(ingest_queue')]_vars

-----------------------------------------------------------------------------
(* Properties of the cycle of the aggregate worker *)

\* The work of a cycle: everything but the sleep.
AggAtWork == {"refresh", "evaluate", "persist_check", "persist_insert"}

\* C23: a cancellation that arrives while a cycle is at work does not
\* interrupt it: the worker leaves the work phase only to the sleep, where
\* the cancellation is observed.
C23_CycleRunsToCompletion ==
    [][(agg_mode = "worker" /\ agg_pc \in AggAtWork)
          => agg_pc' \in AggAtWork \cup {"sleep"}]_vars

\* What the work of a cycle writes.
AggEffects == <<aggregates, alerts, published, publish_warnings, detected,
                aggregate_runs, alerts_emitted, refreshed>>

C24_CancelStep ==
    (agg_mode = "worker" /\ agg_pc = "sleep" /\ agg_pc' \notin {"sleep", "refresh"})
        => /\ agg_pc' = "exited"
           /\ UNCHANGED <<aggregates, alerts, published, publish_warnings,
                          aggregate_runs, alerts_emitted>>

C24_AfterExit ==
    (agg_pc = "exited") => (agg_pc' = "exited" /\ UNCHANGED AggEffects)

\* C24: cancelling aggregate_worker in its sleep phase makes the loop exit
\* normally, and no refresh, evaluation, persist or publish follows.
C24_CancelAtSleep == [][C24_CancelStep /\ C24_AfterExit]_vars

\* The worker was cancelled in the sleep after a cycle that stored an alert.
C24_Witness ==
    /\ agg_pc = "exited"
    /\ aggregate_runs >= 1
    /\ alerts # <<>>

\* The places a step of the worker may lead to.
C26_Successors(pc) ==
    CASE pc = "refresh" -> {"refresh", "evaluate", "sleep", "cancelled"}
      [] pc = "evaluate" -> {"evaluate", "persist_check", "sleep", "cancelled"}
      [] pc = "persist_check" -> {"persist_check", "persist_insert", "sleep", "cancelled"}
      [] pc = "persist_insert" -> {"persist_insert", "persist_check", "sleep", "cancelled"}
      [] pc = "sleep" -> {"sleep", "refresh", "exited"}
      [] OTHER -> {pc}

C26_OrderStep ==
    /\ agg_pc' \in C26_Successors(agg_pc)
    /\ (agg_pc # "refresh") => aggregates' = aggregates
    /\ (agg_pc \notin {"evaluate", "sleep"} /\ agg_pc' # "cancelled")
          => (detected' = detected \/ detected' = <<>>)
    /\ (agg_pc \notin {"persist_check", "persist_insert"})
          => (alerts' = alerts /\ published' = published)

\* C26: in every cycle the steps come in the order refresh of all pairs,
\* evaluation, persist/publish, sleep; the evaluation reads the aggregates
\* the refresh of the same cycle wrote; no step of the next cycle begins
\* before the sleep has ended.
C26_CyclesSerialized ==
    /\ [](agg_mode = "worker" =>
            /\ (agg_pc = "evaluate" =>
                    refreshed = {i \in DOMAIN windows : ~ZeroDuration(windows[i])})
            /\ (agg_pc \in {"persist_check", "persist_insert"} =>
                    /\ refreshed = {i \in DOMAIN windows : ~ZeroDuration(windows[i])}
                    /\ detected = evaluate_latest_buckets(alert_rules)))
    /\ [][agg_mode = "worker" => C26_OrderStep]_vars

\* Two cycles have run and the third has begun.
C26_Witness ==
    /\ agg_mode = "worker"
    /\ agg_pc = "refresh"
    /\ aggregate_runs = 2
    /\ alerts # <<>>

-----------------------------------------------------------------------------
(* Properties of the candidates of the rule evaluator *)

IsLatest(r) ==
    \A q \in aggregates :
        (q.city_id = r.city_id /\ q.bucket_width = r.bucket_width)
            => q.bucket_start <= r.bucket_start

\* The (row, rule) pairs that are to yield a candidate.
Triggering ==
    { x \in aggregates \X DOMAIN alert_rules :
        LET r == x[1]
            rule == alert_rules[x[2]]
            value == RowGet(r, rule.field)
        IN /\ IsLatest(r)
           /\ r.bucket_width = _parse_window(rule.window)
           /\ value # {}
           /\ rule.op \in {">", "<", ">=", "<="}
           /\ C19_Expected(The(value), rule.op, rule.threshold) }

CandidateOf(x) ==
    [city_id |-> x[1].city_id, level |-> alert_rules[x[2]].level,
     rule |-> alert_rules[x[2]].name, message |-> alert_rules[x[2]].message,
     triggered_at |-> x[1].bucket_start]

\* The candidate list is the one the evaluation of this cycle returned.
JustEvaluated == agg_mode = "worker" /\ agg_pc \in {"persist_check", "persist_insert"}

\* C28: the candidates are exactly one per (latest row, rule) whose widths
\* match and whose comparison is true; rules that trigger on the same row
\* each yield their candidate; a candidate carries the row's entity id and
\* bucket start and the rule's name, level and message.
C28_OnePerRowAndRule ==
    JustEvaluated
        => /\ Range(detected) = {CandidateOf(x) : x \in Triggering}
           /\ Len(detected) = Cardinality(Triggering)

\* Two rules triggered on the same row.
C28_Witness ==
    /\ JustEvaluated
    /\ \E i, j \in DOMAIN detected :
          /\ detected[i].city_id = detected[j].city_id
          /\ detected[i].triggered_at = detected[j].triggered_at
          /\ detected[i].rule = "temp_high"
          /\ detected[j].rule = "wind_high"

\* The (row, rule) pairs whose field is absent from the row.
AbsentPairs ==
    { x \in aggregates \X DOMAIN alert_rules :
        /\ IsLatest(x[1])
        /\ x[1].bucket_width = _parse_window(alert_rules[x[2]].window)
        /\ RowGet(x[1], alert_rules[x[2]].field) = {} }

\* C29: a rule whose field is absent from the latest bucket is not
\* triggered: it yields no candidate and no error, and the rules and rows
\* after it are evaluated.
C29_AbsentFieldNotTriggered ==
    JustEvaluated
        => /\ \A x \in AbsentPairs :
                 \A k \in DOMAIN detected : detected[k] # CandidateOf(x)
           /\ \A x \in Triggering :
                 \E k \in DOMAIN detected : detected[k] = CandidateOf(x)

\* The wind average is absent from the row of the first entity; a rule
\* after it on that row's entity and a row after it yielded a candidate.
C29_Witness ==
    /\ JustEvaluated
    /\ \E x \in AbsentPairs :
          /\ x[1].city_id = "brampton"
          /\ alert_rules[x[2]].name = "wind_high"
    /\ \E k \in DOMAIN detected : detected[k].city_id = "toronto"

-----------------------------------------------------------------------------
(* Properties of the statistics of a bucket *)

\* The observations of the group of observation i that the refresh of the
\* pair win_idx reads, and the values of a measurement present in them.
GroupOf(i) ==
    LET width == _parse_window(windows[win_idx].window)
        o == observations[i]
    IN {j \in InHorizon(_parse_window(windows[win_idx].lookback)) :
           /\ observations[j].city_id = o.city_id
           /\ time_bucket(width, observations[j].observed_at)
                 = time_bucket(width, o.observed_at)}

ValuesIn(g, col) ==
    {<<j, The(observations[j][col])>> : j \in {k \in g : observations[k][col] # {}}}

IsAvgOf(x, vals) ==
    IF vals = {} THEN x = {}
    ELSE /\ x # {}
         /\ The(x).num * Cardinality(vals) = The(x).den * SetSum(vals)

IsMinOf(x, vals) ==
    IF vals = {} THEN x = {}
    ELSE \E m \in vals : x = {Frac(m[2], 1)} /\ \A v \in vals : m[2] <= v[2]

IsMaxOf(x, vals) ==
    IF vals = {} THEN x = {}
    ELSE \E m \in vals : x = {Frac(m[2], 1)} /\ \A v \in vals : v[2] <= m[2]

C30_RowOf(i) ==
    LET width == _parse_window(windows[win_idx].window)
        o == observations[i]
        g == GroupOf(i)
    IN \E r \in aggregates' :
          /\ AggKey(r) = <<o.city_id, time_bucket(width, o.observed_at), width>>
          /\ IsAvgOf(r.temp_avg, ValuesIn(g, "temp_c"))
          /\ IsMinOf(r.temp_min, ValuesIn(g, "temp_c"))
          /\ IsMaxOf(r.temp_max, ValuesIn(g, "temp_c"))
          /\ IsAvgOf(r.humidity_avg, ValuesIn(g, "humidity"))
          /\ IsAvgOf(r.wind_avg, ValuesIn(g, "wind_kph"))

\* C30: for each (entity, bucket) group inside the horizon a refresh writes
\* the average, minimum and maximum of each measurement over the
\* observations in which it is present; a measurement absent from every
\* observation of the group is written as absent.
C30_StatsOverPresentValues ==
    [][ Refreshes =>
          \A i \in InHorizon(_parse_window(windows[win_idx].lookback)) :
              C30_RowOf(i) ]_vars

\* A group of two observations, the wind present in one of them, and a
\* group in which it is present in none.
C30_Witness ==
    /\ \E r \in aggregates :
          /\ r.temp_avg = {Frac(3300, 1)}
          /\ r.wind_avg = {Frac(4001, 1)}
          /\ r.humidity_avg = {Frac(90, 1)}
    /\ \E r \in aggregates :
          /\ r.temp_avg = {Frac(3600, 1)}
          /\ r.wind_avg = {}

-----------------------------------------------------------------------------
(* The end-to-end scenario *)

\* Three observations of toronto with 36, 37 and 38 degrees in one 1-hour
\* bucket are stored, and the 1-hour window was refreshed after the last.
C22_Ingested ==
    /\ Len(observations) = 3
    /\ \A i \in DOMAIN observations :
          /\ observations[i].city_id = "toronto"
          /\ time_bucket(60, observations[i].observed_at) = 0
    /\ {observations[i].temp_c : i \in DOMAIN observations}
          = {{3600}, {3700}, {3800}}
    /\ synced # 0
    /\ _parse_window(windows[synced].window) = 60

C22_Aggregated ==
    C22_Ingested
        => \E r \in aggregates :
              /\ AggKey(r) = <<"toronto", 0, 60>>
              /\ r.temp_max = {Frac(3800, 1)}
              /\ r.temp_avg = {Frac(3700, 1)}

C22_OneCandidate ==
    C22_Ingested
        => /\ Len(evaluate_latest_buckets(alert_rules)) = 1
           /\ evaluate_latest_buckets(alert_rules)[1].city_id = "toronto"
           /\ evaluate_latest_buckets(alert_rules)[1].rule = "temp_high"
           /\ (agg_pc \in {"persist_check", "persist_insert"}
                 => detected = evaluate_latest_buckets(alert_rules))

\* The cycle has ended without an error of the store or of the channel.
C22_CycleDone ==
    /\ agg_pc = "sleep"
    /\ alerts_emitted = 1
    /\ ChannelFailures = 0

C22_OnePersistedAndPublished ==
    (C22_Ingested /\ C22_CycleDone)
        => /\ Len(alerts) = 1
           /\ alerts[1].city_id = "toronto"
           /\ Len(published) = 1
           /\ published[1].topic = <<"alerts", "toronto">>

\* C22: end to end: the three observations are ingested; after the refresh
\* of window '1 hour' the bucket has temp_max = 38 and temp_avg = 37; the
\* rule temp_high yields exactly one candidate for the entity; with an empty
\* alert history exactly one alert is persisted and published.
C22_EndToEnd ==
    /\ C22_Aggregated
    /\ C22_OneCandidate
    /\ C22_OnePersistedAndPublished

-----------------------------------------------------------------------------
(* Properties of the stored data *)

\* The sequence new is old with rows appended.
C31_Extends(old, new) ==
    /\ Len(new) >= Len(old)
    /\ SubSeq(new, 1, Len(old)) = old

\* C31: no step of ingest, refresh, evaluate or persist/publish, failed or
\* not, deletes or modifies a stored observation or a persisted alert, and
\* no step deletes an aggregate row: every key of the table stays.
C31_AppendOnly ==
    [][ /\ C31_Extends(observations, observations')
        /\ C31_Extends(alerts, alerts')
        /\ Keys(aggregates) \subseteq Keys(aggregates') ]_vars

\* Observations and an alert are stored, a publish failed, and a row of the
\* first bucket was written again in a later cycle, beside other rows.
C31_Witness ==
    /\ Len(observations) = 2
    /\ alerts # <<>>
    /\ publish_warnings # <<>>
    /\ Cardinality(aggregates) >= 3
    /\ \E r \in aggregates : r.bucket_start = 0 /\ r.created_at > 0

-----------------------------------------------------------------------------
(* Properties of the rows a refresh writes *)

\* The row of the group n holds the statistics over all stored observations
\* of the group's entity and bucket.
C32_Covers(n) ==
    LET g == BucketObs(n.city_id, n.bucket_start, n.bucket_width)
    IN \E r \in aggregates' :
          /\ AggKey(r) = AggKey(n)
          /\ r.temp_avg = SqlAvg(g, "temp_c")
          /\ r.temp_min = SqlMin(g, "temp_c")
          /\ r.temp_max = SqlMax(g, "temp_c")
          /\ r.humidity_avg = SqlAvg(g, "humidity")
          /\ r.wind_avg = SqlAvg(g, "wind_kph")

\* C32: after a refresh of window W every row of width W the refresh wrote
\* holds avg/min/max over all stored observations of the entity whose
\* timestamp is inside the bucket, the bucket that contains now - lookback
\* included.
C32_RowsCoverWholeBucket ==
    [][ Refreshes =>
          \A n \in SelectGroups(_parse_window(windows[win_idx].window),
                                _parse_window(windows[win_idx].lookback)) :
              C32_Covers(n) ]_vars

\* The row is one refresh_window(W, L) may write: its width is W and its
\* group holds an observation with observed_at >= now - L.
C34_InScope(r, W, L) ==
    /\ r.bucket_width = W
    /\ \E i \in DOMAIN observations :
          /\ observations[i].city_id = r.city_id
          /\ time_bucket(W, observations[i].observed_at) = r.bucket_start
          /\ observations[i].observed_at >= now - L

C34_FrameStep ==
    LET W == _parse_window(windows[win_idx].window)
        L == _parse_window(windows[win_idx].lookback)
    IN /\ observations' = observations
       /\ alerts' = alerts
       /\ \A r \in aggregates : ~C34_InScope(r, W, L) => r \in aggregates'
       /\ \A r \in aggregates' : ~C34_InScope(r, W, L) => r \in aggregates

\* C34: refresh_window(W, L) changes only aggregate rows of width W whose
\* (entity, bucket) group holds an observation with observed_at >= now - L;
\* rows of other widths, rows of buckets older than the horizon, the
\* observations and the alerts stay as they are.
C34_RefreshFrame == [][Refreshes => C34_FrameStep]_vars

\* A refresh of ('15 minutes', '1 hour') has written a row while the row of
\* a bucket that ended before the horizon was left as it was written first.
C34_Witness ==
    /\ agg_mode = "refresh_all"
    /\ agg_pc = "returned"
    /\ refreshed = {1}
    /\ windows = << [window |-> <<"15", "minutes">>, lookback |-> <<"1", "hour">>] >>
    /\ \E r, q \in aggregates :
          /\ r.bucket_start + r.bucket_width <= now - 60
          /\ r.created_at < now
          /\ q.created_at = now

-----------------------------------------------------------------------------
(* Properties of the counters *)

\* C33: whenever aggregate_worker is in its sleep phase alerts_emitted is
\* the number of alerts persisted so far, also after a cycle in which an
\* error of the store left persist_and_publish_alerts after some alerts of
\* the batch were inserted.
C33_CounterMatchesPersisted ==
    (agg_mode = "worker" /\ agg_pc = "sleep") => alerts_emitted = Len(alerts)

\* The worker resumes after the INSERT of the item current has failed.
C36_StoreFailed ==
    /\ ingest_at = "db"
    /\ db_state = "failed"
    /\ ~ingest_cancel
    /\ ingest_at' # "db"

C36_FailureStep ==
    C36_StoreFailed
        => /\ acked' = Append(acked, current)
           /\ ingest_failures' = ingest_failures + 1
           /\ ingested_messages' = ingested_messages
           /\ observations' = observations
           /\ ingest_at' = "top"
           /\ current' = 0

\* An acknowledged item is not processed again: it is neither put back nor
\* taken up, and an observation is stored only for the item in process.
C36_NoRetryStep ==
    /\ \A id \in Range(acked) :
          /\ current' # id
          /\ id \notin Range(ingest_queue')
          /\ id \notin Range(putters')
          /\ \A i \in DOMAIN ready' : ready'[i].id # id
    /\ Stores => (current # 0 /\ current \notin Range(acked))

-----------------------------------------------------------------------------
(* Progress of the ingestion stage *)

\* on_message has handed message i to the queue (its put() was scheduled)
\* and the worker has not acknowledged it.
C35_Pending(i) ==
    /\ i \in DOMAIN delivered
    /\ delivered[i].json
    /\ i \notin Range(acked)

\* C35: while the ingest task is not cancelled, every message on_message
\* hands to the queue is eventually dequeued and acknowledged.  It is
\* stated for the oldest message that is not finished, which keeps the
\* number 1 until it is acknowledged.
C35_EventuallyAcked ==
    C35_Pending(1) ~> (1 \in Range(dequeued) /\ 1 \in Range(acked))

====
